---- MODULE Spec2Model ----
(***************************************************************************)
(* A model of TOTPService (src/totp-project/src/services/TOTPService.ts):  *)
(* secret validation, TOTP generation and validation on top of otplib's    *)
(* totp object, and the otpauth:// URL codec; of StorageService and        *)
(* FirebaseService (local store, keychain, cloud sync); and of             *)
(* SessionManager (inactivity timers and dialogs).                         *)
(*                                                                         *)
(* JavaScript strings are sequences of one-character strings.  A call that *)
(* can throw is an operator returning [ok |-> TRUE, value |-> v] or        *)
(* [ok |-> FALSE, error |-> message].                                      *)
(***************************************************************************)
EXTENDS Integers, Sequences, FiniteSets, TLC

VARIABLES
  now,          \* the wall clock, Date.now(), in milliseconds
  totpOptions,  \* otplib's shared totp.options object
  held,         \* what a caller keeps of an earlier call (a code, a URL, a sync), or None
  arg,          \* the argument a caller of a pure method is about to pass, or None
  ret,          \* the call that has just returned or thrown, or None
  dateNow,      \* the function Date.now: the native clock or an override
  session,      \* the fields of the SessionManager instance
  alerts,       \* the dialogs Alert.alert has put on the screen
  encryptionKey,\* StorageService.encryptionKey
  keychain,     \* the device keychain
  asyncStorage, \* AsyncStorage: item name to stored value
  firestore,    \* the user's account documents in Firestore
  tasks         \* the asynchronous operations in flight and where each one is

\* the state outside TOTPService
others == <<dateNow, session, alerts, encryptionKey, keychain, asyncStorage, firestore, tasks>>

vars == <<now, totpOptions, held, arg, ret, others>>

\* no code held, no argument, no call
None == [op |-> "none"]

\* Date.now as the runtime provides it
NativeNow == [t |-> "native"]

\* nothing outside TOTPService has been constructed or stored
OthersIdle ==
  /\ dateNow = NativeNow
  /\ session = None
  /\ alerts = {}
  /\ encryptionKey = None
  /\ keychain = None
  /\ asyncStorage = None
  /\ firestore = None
  /\ tasks = None

(***************************************************************************)
(* JavaScript values and strings                                           *)
(***************************************************************************)
Undefined == [t |-> "undefined"]
Str(chars) == [t |-> "string", s |-> chars]
Num(n) == [t |-> "number", n |-> n]

UpperLetters ==
  <<"A","B","C","D","E","F","G","H","I","J","K","L","M",
    "N","O","P","Q","R","S","T","U","V","W","X","Y","Z">>
LowerLetters ==
  <<"a","b","c","d","e","f","g","h","i","j","k","l","m",
    "n","o","p","q","r","s","t","u","v","w","x","y","z">>
Digits == <<"0","1","2","3","4","5","6","7","8","9">>

Range(seq) == {seq[i] : i \in 1..Len(seq)}
IndexOf(seq, c) == CHOOSE i \in 1..Len(seq) : seq[i] = c

\* /\s/ : the white space the inputs of the model use
Whitespace == {" ", "\t", "\n"}

\* [A-Z2-7]
Base32Chars == Range(UpperLetters) \cup {"2","3","4","5","6","7"}

\* \d
DigitChars == Range(Digits)

LowerChars == Range(LowerLetters)
UpperOf == [c \in LowerChars |-> UpperLetters[IndexOf(LowerLetters, c)]]

\* String.prototype.toUpperCase, one character
UpperChar(c) == IF c \in LowerChars THEN UpperOf[c] ELSE c

toUpperCase(s) == [i \in 1..Len(s) |-> UpperChar(s[i])]

\* s.replace(/\s/g, '')
RemoveWhitespace(s) == SelectSeq(s, LAMBDA c : c \notin Whitespace)

\* the number of trailing '=' of s
RECURSIVE TrailingPad(_)
TrailingPad(s) ==
  IF Len(s) > 0 /\ s[Len(s)] = "=" THEN 1 + TrailingPad(SubSeq(s, 1, Len(s) - 1))
  ELSE 0

\* s.replace(/=+$/, '')
StripPadding(s) == SubSeq(s, 1, Len(s) - TrailingPad(s))

\* /^[A-Z2-7]+=*$/.test(s)
IsBase32Format(s) ==
  LET body == StripPadding(s)
  IN  /\ Len(body) > 0
      /\ \A i \in 1..Len(body) : body[i] \in Base32Chars

(***************************************************************************)
(* validateAndCleanSecret, validateSecret                                  *)
(***************************************************************************)
Return(v) == [ok |-> TRUE, value |-> v]
Throw(msg) == [ok |-> FALSE, error |-> msg]

\* withoutPadding.length < 8
MinSecretLength == 8

\* faulty variant: the length floor is off by one
TooShortAtOrBelow(withoutPadding) == Len(withoutPadding) <= MinSecretLength
TooShort(withoutPadding) == Len(withoutPadding) < MinSecretLength

validateAndCleanSecret(secret) ==
  IF secret.t # "string" \/ secret.s = <<>>
  THEN Throw("Secret must be a non-empty string")
  ELSE LET cleaned == toUpperCase(RemoveWhitespace(secret.s))
       IN  IF ~IsBase32Format(cleaned)
           THEN Throw("Secret must be valid Base32 encoded string")
           ELSE IF TooShort(StripPadding(cleaned))
           THEN Throw("Secret is too short (minimum 8 characters without padding)")
           ELSE Return(cleaned)

validateSecret(secret) ==
  LET cleaned == validateAndCleanSecret(secret)
  IN  IF cleaned.ok THEN Len(cleaned.value) > 0 ELSE FALSE

(***************************************************************************)
(* Inputs of the secret validation                                         *)
(***************************************************************************)
MaxBody == 9
MaxPad == 2

Rep(c, n) == [i \in 1..n |-> c]

HelloSecret ==
  <<"J","B","S","W","Y","3","D","P","E","H","P","K","3","P","X","P">>
HelloSecretTyped ==
  <<"j","b","s","w"," ","y","3","d","p"," ","e","h","p","k"," ","3","p","x","p">>
OtherSecret ==
  <<"G","E","Z","D","G","N","B","V","G","Y","3","T","Q","O","J","Q">>
PaddedSecret == <<"M","Z","X","W","6","Y","T","B","O","I","=","=","=","=","=","=">>
ShortSecret == <<"A","A","A","A">>
NotBase32 ==
  <<"n","o","t"," ","v","a","l","i","d"," ","b","a","s","e","3","2","!","!","!">>

SecretFamily ==
  { pre \o Rep(x, i) \o mid \o Rep("=", j) \o post :
      pre \in {<<>>, <<" ">>, <<"=">>},
      x \in {"A", "a", "7"},
      i \in 0..MaxBody,
      mid \in {<<>>, <<"\t">>, <<"1">>, <<"!">>, <<"z">>},
      j \in 0..MaxPad,
      post \in {<<>>, <<"B">>, <<"\n">>} }

SecretStrings ==
  SecretFamily \cup
  {HelloSecret, HelloSecretTyped, OtherSecret, PaddedSecret, ShortSecret, NotBase32}

SecretInputs ==
  {Str(s) : s \in SecretStrings} \cup {Undefined, Num(12345678)}

(***************************************************************************)
(* otplib's totp object (@otplib/preset-browser), as TOTPService uses it.  *)
(* The HMAC is the crypto library's; the model replaces it by a            *)
(* deterministic mixing function of (key, counter, algorithm) that yields  *)
(* a digest of the algorithm's length.  Everything after the HMAC is       *)
(* otplib's: dynamic truncation, the modulus and the padding.              *)
(***************************************************************************)
SHA1 == <<"S","H","A","1">>
SHA256 == <<"S","H","A","2","5","6">>
SHA512 == <<"S","H","A","5","1","2">>
MD5 == <<"M","D","5">>

KeyAlphabet == UpperLetters \o Digits \o <<"=">>

KeyCode == [c \in Range(KeyAlphabet) |-> IndexOf(KeyAlphabet, c)]

\* a hash of the first n characters of the key
RECURSIVE KeyHash(_, _)
KeyHash(key, n) ==
  IF n = 0 THEN 7 ELSE (KeyHash(key, n - 1) * 31 + KeyCode[key[n]]) % 65521

DigestLength(algorithm) ==
  CASE algorithm = "sha1" -> 20
    [] algorithm = "sha256" -> 32
    [] algorithm = "sha512" -> 64

\* hotpDigest: what determines HMAC(algorithm, key, counter)
DigestSeed(key, counter, algorithm) ==
  (KeyHash(key, Len(key)) * 131 + (counter % 8191) * 977
     + DigestLength(algorithm) * 389) % 65521

\* byte i (0-based) of the digest
DigestByte(seed, i) == (((seed + 1) * (i * 53 + 17)) % 65519) % 256

\* hotpDigestToToken: dynamic truncation to 31 bits (RFC 4226 5.3)
DynamicTruncate(key, counter, algorithm) ==
  LET seed == DigestSeed(key, counter, algorithm)
      offset == DigestByte(seed, DigestLength(algorithm) - 1) % 16
  IN  (DigestByte(seed, offset) % 128) * 16777216
        + DigestByte(seed, offset + 1) * 65536
        + DigestByte(seed, offset + 2) * 256
        + DigestByte(seed, offset + 3)

RECURSIVE Pow10(_)
Pow10(n) == IF n = 0 THEN 1 ELSE 10 * Pow10(n - 1)

\* String(n) for a natural number n
RECURSIVE ToDecimal(_)
ToDecimal(n) ==
  IF n < 10 THEN <<Digits[n + 1]>>
  ELSE Append(ToDecimal(n \div 10), Digits[(n % 10) + 1])

\* s.padStart(width, '0')
padStart(s, width) ==
  IF Len(s) >= width THEN s ELSE Rep("0", width - Len(s)) \o s

\* hotpToken(secret, counter, options)
hotpToken(key, counter, options) ==
  padStart(ToDecimal(DynamicTruncate(key, counter, options.algorithm)
                       % Pow10(options.digits)),
           options.digits)

\* totpCounter: Math.floor(epoch / step / 1000)
totpCounter(epoch, step) ==
  IF step > 0 THEN epoch \div (step * 1000)
  ELSE -((epoch + (-step) * 1000 - 1) \div ((-step) * 1000))

\* isTokenValid: /^(\d+)$/.test(token)
isTokenValid(token) ==
  /\ token.t = "string"
  /\ Len(token.s) > 0
  /\ \A i \in 1..Len(token.s) : token.s[i] \in DigitChars

\* totp.generate(secret), with totp.options = options and Date.now() = epoch
totpGenerate(key, options, epoch) ==
  hotpToken(key, totpCounter(epoch, options.step), options)

\* totpCheck: the token against the code of one epoch
totpCheckEpoch(token, key, options, epoch) ==
  /\ isTokenValid(token)
  /\ token.s = totpGenerate(key, options, epoch)

\* totp.check(token, secret) = totpCheckWithWindow: the current epoch, then
\* options.window epochs back and options.window epochs ahead, one step apart
totpCheck(token, key, options, epoch) ==
  \/ totpCheckEpoch(token, key, options, epoch)
  \/ \E i \in 1..options.window :
       \/ totpCheckEpoch(token, key, options, epoch - i * options.step * 1000)
       \/ totpCheckEpoch(token, key, options, epoch + i * options.step * 1000)

\* the setter of totp.options: { ...this._options, ...value }
SetOptions(current, value) ==
  [k \in DOMAIN current \cup DOMAIN value |->
     IF k \in DOMAIN value THEN value[k] ELSE current[k]]

(***************************************************************************)
(* generateTOTP, validateTOTP                                              *)
(***************************************************************************)
\* options?.field
Field(options, name) ==
  IF options.t = "undefined" THEN Undefined ELSE options[name]

\* value || fallback, for a number or undefined
OrNumber(value, fallback) ==
  IF value.t = "undefined" THEN fallback
  ELSE IF value.n = 0 THEN fallback ELSE value.n

mapAlgorithm(algorithm) ==
  IF algorithm.t # "string" THEN "sha1"
  ELSE CASE algorithm.s = SHA1 -> "sha1"
         [] algorithm.s = SHA256 -> "sha256"
         [] algorithm.s = SHA512 -> "sha512"
         [] OTHER -> "sha1"

\* faulty variant: digits is read from the window field
BuildTotpOptionsDigitsFromWindow(options) ==
  [digits |-> OrNumber(Field(options, "window"), 6),
   step |-> OrNumber(Field(options, "period"), 30),
   algorithm |-> mapAlgorithm(Field(options, "algorithm")),
   window |-> OrNumber(Field(options, "window"), 1)]

\* faulty variant: the window is not passed on, so otplib's default 0 applies
BuildTotpOptionsNoWindow(options) ==
  [digits |-> OrNumber(Field(options, "digits"), 6),
   step |-> OrNumber(Field(options, "period"), 30),
   algorithm |-> mapAlgorithm(Field(options, "algorithm")),
   window |-> 0]

\* faulty variant: only the fields the caller gives are written, the others
\* stay as the call before left them
BuildTotpOptionsGivenOnly(options) ==
  LET all == [digits |-> OrNumber(Field(options, "digits"), 6),
              step |-> OrNumber(Field(options, "period"), 30),
              algorithm |-> mapAlgorithm(Field(options, "algorithm")),
              window |-> OrNumber(Field(options, "window"), 1)]
      given == {k \in {"digits", "algorithm", "window"} : Field(options, k) # Undefined}
                 \cup (IF Field(options, "period") # Undefined THEN {"step"} ELSE {})
  IN  [k \in given |-> all[k]]

\* the object generateTOTP and validateTOTP assign to totp.options
BuildTotpOptions(options) ==
  [digits |-> OrNumber(Field(options, "digits"), 6),
   step |-> OrNumber(Field(options, "period"), 30),
   algorithm |-> mapAlgorithm(Field(options, "algorithm")),
   window |-> OrNumber(Field(options, "window"), 1)]

\* faulty variant: a secret that fails validation is cleaned and used all the same
generateTOTPUnchecked(secret, options, epoch, shared) ==
  LET cleanSecret ==
        IF secret.t = "string" THEN toUpperCase(RemoveWhitespace(secret.s)) ELSE <<>>
      written == SetOptions(shared, BuildTotpOptions(options))
  IN  IF cleanSecret # <<>> /\ IsBase32Format(cleanSecret)
      THEN [result |-> Return(Str(totpGenerate(cleanSecret, written, epoch))),
            options |-> written]
      ELSE [result |-> Throw(<<"Failed to generate TOTP: ", "Unknown error">>),
            options |-> shared]

\* generateTOTP(secret, options) with Date.now() = epoch and totp.options =
\* shared: what it returns or throws, and totp.options afterwards
generateTOTP(secret, options, epoch, shared) ==
  LET cleanSecret == validateAndCleanSecret(secret)
      written == SetOptions(shared, BuildTotpOptions(options))
  IN  IF cleanSecret.ok
      THEN [result |-> Return(Str(totpGenerate(cleanSecret.value, written, epoch))),
            options |-> written]
      ELSE [result |-> Throw(<<"Failed to generate TOTP: ", cleanSecret.error>>),
            options |-> shared]

\* faulty variant: the period is not passed on as otplib's step, which stays 30
validateTOTPIgnoresPeriod(code, secret, options, epoch, shared) ==
  LET cleanSecret == validateAndCleanSecret(secret)
      written == SetOptions(shared, [BuildTotpOptions(options) EXCEPT !.step = 30])
  IN  IF cleanSecret.ok
      THEN [result |-> Return(totpCheck(code, cleanSecret.value, written, epoch)),
            options |-> written]
      ELSE [result |-> Return(FALSE), options |-> shared]

\* faulty variant: no catch around the validation of the secret
validateTOTPNoCatch(code, secret, options, epoch, shared) ==
  LET cleanSecret == validateAndCleanSecret(secret)
      written == SetOptions(shared, BuildTotpOptions(options))
  IN  IF cleanSecret.ok
      THEN [result |-> Return(totpCheck(code, cleanSecret.value, written, epoch)),
            options |-> written]
      ELSE [result |-> Throw(cleanSecret.error), options |-> shared]

\* validateTOTP(code, secret, options): the catch turns every throw into false
validateTOTP(code, secret, options, epoch, shared) ==
  LET cleanSecret == validateAndCleanSecret(secret)
      written == SetOptions(shared, BuildTotpOptions(options))
  IN  IF cleanSecret.ok
      THEN [result |-> Return(totpCheck(code, cleanSecret.value, written, epoch)),
            options |-> written]
      ELSE [result |-> Return(FALSE), options |-> shared]

(***************************************************************************)
(* Text helpers of the URL codec                                           *)
(***************************************************************************)
Null == [t |-> "null"]
NaN == [t |-> "NaN"]

\* the printable ASCII characters, code 32 to code 126 ("grave" stands for
\* the grave accent, code 96, which a TLA+ string cannot hold)
Ascii ==
  <<" ","!","\"","#","$","%","&","'","(",")","*","+",",","-",".","/",
    "0","1","2","3","4","5","6","7","8","9",":",";","<","=",">","?",
    "@","A","B","C","D","E","F","G","H","I","J","K","L","M","N","O",
    "P","Q","R","S","T","U","V","W","X","Y","Z","[","\\","]","^","_",
    "grave","a","b","c","d","e","f","g","h","i","j","k","l","m","n","o",
    "p","q","r","s","t","u","v","w","x","y","z","{","|","}","~">>
AsciiChars == Range(Ascii)
CharCodeOf == [c \in AsciiChars |-> IndexOf(Ascii, c) + 31]

HexDigits == <<"0","1","2","3","4","5","6","7","8","9","A","B","C","D","E","F">>
HexChars == Range(HexDigits) \cup {"a","b","c","d","e","f"}
HexValue == [c \in HexChars |-> IndexOf(HexDigits, UpperChar(c)) - 1]

\* %XX of one ASCII character
PercentEncoded(c) ==
  <<"%", HexDigits[(CharCodeOf[c] \div 16) + 1], HexDigits[(CharCodeOf[c] % 16) + 1]>>

IsEscapeAt(s, i) ==
  /\ s[i] = "%"
  /\ i + 2 <= Len(s)
  /\ s[i + 1] \in HexChars
  /\ s[i + 2] \in HexChars

EscapeCodeAt(s, i) == HexValue[s[i + 1]] * 16 + HexValue[s[i + 2]]

IsPrintableCode(code) == code >= 32 /\ code <= 126

RECURSIVE Concat(_)
Concat(parts) ==
  IF parts = <<>> THEN <<>>
  ELSE IF Len(parts) = 1 THEN parts[1]
  ELSE LET half == Len(parts) \div 2
       IN  Concat(SubSeq(parts, 1, half)) \o Concat(SubSeq(parts, half + 1, Len(parts)))

\* the index of the first c in s at or after i, 0 when there is none
FindFrom(s, c, i) ==
  LET hits == {j \in i..Len(s) : s[j] = c}
  IN  IF hits = {} THEN 0 ELSE CHOOSE j \in hits : \A k \in hits : j <= k

\* the index of the first character of s that is in set, Len(s) + 1 when there is none
FirstIn(s, set, i) ==
  LET hits == {j \in i..Len(s) : s[j] \in set}
  IN  IF hits = {} THEN Len(s) + 1 ELSE CHOOSE j \in hits : \A k \in hits : j <= k

\* s.split(sep): every piece
RECURSIVE Split(_, _)
Split(s, sep) ==
  LET i == FindFrom(s, sep, 1)
  IN  IF i = 0 THEN <<s>>
      ELSE <<SubSeq(s, 1, i - 1)>> \o Split(SubSeq(s, i + 1, Len(s)), sep)

\* s.split(sep, limit): the first limit pieces of s.split(sep)
SplitLimit(s, sep, limit) ==
  LET pieces == Split(s, sep)
  IN  SubSeq(pieces, 1, IF Len(pieces) < limit THEN Len(pieces) ELSE limit)

\* encodeURIComponent leaves A-Z a-z 0-9 - _ . ! ~ * ' ( )
UriUnreserved ==
  Range(UpperLetters) \cup LowerChars \cup DigitChars
    \cup {"-", "_", ".", "!", "~", "*", "'", "(", ")"}

encodeURIComponent(s) ==
  Concat([i \in 1..Len(s) |->
            IF s[i] \in UriUnreserved THEN <<s[i]>> ELSE PercentEncoded(s[i])])

\* decodeURIComponent: every % must start an escape of a character
RECURSIVE DecodeFrom(_, _)
DecodeFrom(s, i) ==
  IF i > Len(s) THEN Return(<<>>)
  ELSE IF s[i] # "%"
  THEN LET rest == DecodeFrom(s, i + 1)
       IN  IF rest.ok THEN Return(<<s[i]>> \o rest.value) ELSE rest
  ELSE IF ~IsEscapeAt(s, i) \/ ~IsPrintableCode(EscapeCodeAt(s, i))
  THEN Throw("URI malformed")
  ELSE LET rest == DecodeFrom(s, i + 3)
       IN  IF rest.ok THEN Return(<<Ascii[EscapeCodeAt(s, i) - 31]>> \o rest.value)
           ELSE rest

decodeURIComponent(s) == DecodeFrom(s, 1)

\* the application/x-www-form-urlencoded serializer of URLSearchParams
FormUnreserved ==
  Range(UpperLetters) \cup LowerChars \cup DigitChars \cup {"*", "-", ".", "_"}

FormEncode(s) ==
  Concat([i \in 1..Len(s) |->
            IF s[i] \in FormUnreserved THEN <<s[i]>>
            ELSE IF s[i] = " " THEN <<"+">>
            ELSE PercentEncoded(s[i])])

\* the parser of URLSearchParams: + is a space, a valid escape is its
\* character, any other % stays
RECURSIVE FormDecodeFrom(_, _)
FormDecodeFrom(s, i) ==
  IF i > Len(s) THEN <<>>
  ELSE IF s[i] = "+" THEN <<" ">> \o FormDecodeFrom(s, i + 1)
  ELSE IF IsEscapeAt(s, i) /\ IsPrintableCode(EscapeCodeAt(s, i))
  THEN <<Ascii[EscapeCodeAt(s, i) - 31]>> \o FormDecodeFrom(s, i + 3)
  ELSE <<s[i]>> \o FormDecodeFrom(s, i + 1)

FormDecode(s) == FormDecodeFrom(s, 1)

\* new URLSearchParams(query): the name/value pairs in order
ParseQuery(query) ==
  LET pieces == SelectSeq(Split(query, "&"), LAMBDA piece : piece # <<>>)
      Pair(piece) ==
        LET eq == FindFrom(piece, "=", 1)
        IN  IF eq = 0 THEN <<FormDecode(piece), <<>>>>
            ELSE <<FormDecode(SubSeq(piece, 1, eq - 1)),
                   FormDecode(SubSeq(piece, eq + 1, Len(piece)))>>
  IN  [i \in 1..Len(pieces) |-> Pair(pieces[i])]

\* searchParams.get(name): the first value of the name, or null
ParamsGet(params, name) ==
  LET hits == SelectSeq(params, LAMBDA pair : pair[1] = name)
  IN  IF hits = <<>> THEN Null ELSE Str(hits[1][2])

\* new URLSearchParams(pairs).toString()
ParamsToString(pairs) ==
  Concat([i \in 1..Len(pairs) |->
            (IF i > 1 THEN <<"&">> ELSE <<>>)
              \o FormEncode(pairs[i][1]) \o <<"=">> \o FormEncode(pairs[i][2])])

\* the value of the decimal digits s[i..j]
RECURSIVE DigitsValue(_, _, _)
DigitsValue(s, i, j) ==
  IF j < i THEN 0 ELSE DigitsValue(s, i, j - 1) * 10 + (IndexOf(Digits, s[j]) - 1)

\* parseInt(s, 10): white space, a sign, then the leading decimal digits
parseInt(s) ==
  LET start == FirstIn(s, AsciiChars \ Whitespace, 1)
      signed == start <= Len(s) /\ s[start] \in {"-", "+"}
      first == IF signed THEN start + 1 ELSE start
      stop == IF first > Len(s) THEN first
              ELSE FirstIn(s, (AsciiChars \cup Whitespace) \ DigitChars, first)
  IN  IF stop = first THEN NaN
      ELSE IF signed /\ s[start] = "-" THEN Num(-DigitsValue(s, first, stop - 1))
      ELSE Num(DigitsValue(s, first, stop - 1))

\* n.toString() of an integer
NumberToString(n) == IF n < 0 THEN <<"-">> \o ToDecimal(-n) ELSE ToDecimal(n)

(***************************************************************************)
(* new URL(url), for a URL without credentials and port                    *)
(***************************************************************************)
SchemeChars == Range(UpperLetters) \cup LowerChars \cup DigitChars \cup {"+", "-", "."}
SpecialSchemes ==
  {<<"h","t","t","p">>, <<"h","t","t","p","s">>, <<"f","t","p">>,
   <<"w","s">>, <<"w","s","s">>, <<"f","i","l","e">>}

\* the code points an opaque host must not hold
ForbiddenHostChars ==
  {" ", "#", "/", ":", "<", ">", "?", "@", "[", "\\", "]", "^", "|", "\t", "\n"}

\* the characters the path state percent-encodes
PathEncodeSet == {" ", "\"", "<", ">", "grave", "{", "}"}

PathEncode(s) ==
  Concat([i \in 1..Len(s) |->
            IF s[i] \in PathEncodeSet THEN PercentEncoded(s[i]) ELSE <<s[i]>>])

toLowerCase(s) ==
  [i \in 1..Len(s) |->
     IF s[i] \in Range(UpperLetters) THEN LowerLetters[IndexOf(UpperLetters, s[i])]
     ELSE s[i]]

\* the path state: a "." segment is dropped and a ".." segment drops the
\* one before it; either leaves an empty segment when it ends the path
RECURSIVE RemoveDotSegments(_, _)
RemoveDotSegments(segments, kept) ==
  IF segments = <<>> THEN kept
  ELSE LET segment == toLowerCase(Head(segments))
           atEnd == IF Len(segments) = 1 THEN << <<>> >> ELSE <<>>
       IN  IF segment \in {<<".",".">>, <<".","%","2","e">>, <<"%","2","e",".">>,
                           <<"%","2","e","%","2","e">>}
           THEN RemoveDotSegments(Tail(segments),
                                  SubSeq(kept, 1, Len(kept) - 1) \o atEnd)
           ELSE IF segment \in {<<".">>, <<"%","2","e">>}
           THEN RemoveDotSegments(Tail(segments), kept \o atEnd)
           ELSE RemoveDotSegments(Tail(segments), Append(kept, Head(segments)))

\* new URL(url): protocol, hostname, pathname and the query, or a TypeError
ParseURL(url) ==
  LET colon == FindFrom(url, ":", 1)
      scheme == SubSeq(url, 1, colon - 1)
      rest == SubSeq(url, colon + 1, Len(url))
      noFragment == SubSeq(rest, 1, FirstIn(rest, {"#"}, 1) - 1)
      q == FirstIn(noFragment, {"?"}, 1)
      beforeQuery == SubSeq(noFragment, 1, q - 1)
      query == SubSeq(noFragment, q + 1, Len(noFragment))
      hasAuthority ==
        Len(beforeQuery) >= 2 /\ beforeQuery[1] = "/" /\ beforeQuery[2] = "/"
      afterSlashes == SubSeq(beforeQuery, 3, Len(beforeQuery))
      hostEnd == FirstIn(afterSlashes, {"/"}, 1)
      host == IF hasAuthority THEN SubSeq(afterSlashes, 1, hostEnd - 1) ELSE <<>>
      rawPath == SubSeq(afterSlashes, hostEnd, Len(afterSlashes))
      segments == RemoveDotSegments(Split(SubSeq(rawPath, 2, Len(rawPath)), "/"), <<>>)
      path == IF ~hasAuthority THEN beforeQuery
              ELSE IF rawPath = <<>> THEN <<>>
              ELSE Concat([i \in 1..Len(segments) |-> <<"/">> \o segments[i]])
      special == toLowerCase(scheme) \in SpecialSchemes
  IN  IF \/ colon < 2
         \/ scheme[1] \notin Range(UpperLetters) \cup LowerChars
         \/ \E i \in 1..Len(scheme) : scheme[i] \notin SchemeChars
      THEN Throw("Invalid URL")
      ELSE IF \E i \in 1..Len(host) : host[i] \in ForbiddenHostChars
      THEN Throw("Invalid URL")
      ELSE IF special /\ host = <<>>
      THEN Throw("Invalid URL")
      ELSE Return([protocol |-> toLowerCase(scheme) \o <<":">>,
                   hostname |-> IF special THEN toLowerCase(host) ELSE host,
                   pathname |-> IF special /\ path = <<>> THEN <<"/">>
                                ELSE PathEncode(path),
                   query |-> query])

(***************************************************************************)
(* parseOTPAuthURL, createOTPAuthURL                                       *)
(***************************************************************************)
OtpauthProtocol == <<"o","t","p","a","u","t","h",":">>
TotpType == <<"t","o","t","p">>
HotpType == <<"h","o","t","p">>

\* faulty variant: any host is taken as the OTP type
IsSupportedTypeAny(type) == TRUE
\* type !== 'totp' && type !== 'hotp' throws
IsSupportedType(type) == type \in {TotpType, HotpType}

\* value || fallback, for a string or null
OrString(value, fallback) ==
  IF value.t # "string" THEN fallback
  ELSE IF value.s = <<>> THEN fallback ELSE value.s

\* the issuer the label handling leaves, issuerParam being params.get('issuer') || ''
LabelIssuer(pathLabel, issuerParam) ==
  IF ":" \in Range(pathLabel) /\ issuerParam = <<>>
  THEN SplitLimit(pathLabel, ":", 2)[1]
  ELSE issuerParam

\* the accountName the label handling leaves
LabelAccountName(pathLabel, issuerParam) ==
  LET parts == SplitLimit(pathLabel, ":", 2)
  IN  IF ":" \in Range(pathLabel) /\ issuerParam = <<>> THEN parts[2]
      ELSE IF ":" \in Range(pathLabel) /\ issuerParam # <<>>
      THEN (IF parts[2] # <<>> THEN parts[2] ELSE parts[1])
      ELSE pathLabel

\* faulty variant: the parsed digits are kept as they are
NormalizeDigitsKept(digits) == digits
\* if (![6, 7, 8].includes(result.digits)) result.digits = 6
NormalizeDigits(digits) ==
  IF digits.t = "number" /\ digits.n \in {6, 7, 8} THEN digits ELSE Num(6)

\* if (!['SHA1', 'SHA256', 'SHA512'].includes(result.algorithm)) result.algorithm = 'SHA1'
NormalizeAlgorithm(algorithm) ==
  IF algorithm \in {SHA1, SHA256, SHA512} THEN algorithm ELSE SHA1

\* if (result.period < 1 || result.period > 300) result.period = 30:
\* both comparisons are false for NaN
NormalizePeriod(period) ==
  IF period.t = "number" /\ (period.n < 1 \/ period.n > 300) THEN Num(30) ELSE period

\* faulty variant: the parsed number is tested, so that counter=0 is dropped
ParseCounterNonZero(type, params) ==
  LET counter == ParamsGet(params, <<"c","o","u","n","t","e","r">>)
  IN  IF type = HotpType /\ counter.t = "string" /\ counter.s # <<>>
         /\ parseInt(counter.s) # Num(0)
      THEN parseInt(counter.s)
      ELSE Undefined

\* the counter of the result: set only for hotp with a non-empty parameter
ParseCounter(type, params) ==
  LET counter == ParamsGet(params, <<"c","o","u","n","t","e","r">>)
  IN  IF type = HotpType /\ counter.t = "string" /\ counter.s # <<>>
      THEN parseInt(counter.s)
      ELSE Undefined

\* the catch of parseOTPAuthURL
ParseFailure(message) ==
  [result |-> Throw(<<"Invalid OTPAuth URL: ", message>>), accountName |-> Undefined]

\* parseOTPAuthURL(url): what it returns or throws, and its local accountName
parseOTPAuthURL(url) ==
  LET Descriptor(type, params, secret, pathLabel, issuerParam) ==
        LET issuer == LabelIssuer(pathLabel, issuerParam)
            a == ParamsGet(params, <<"a","l","g","o","r","i","t","h","m">>)
            algorithm == IF a.t = "string" /\ a.s # <<>> THEN toUpperCase(a.s) ELSE SHA1
            digits == parseInt(OrString(ParamsGet(params, <<"d","i","g","i","t","s">>), <<"6">>))
            period == parseInt(OrString(ParamsGet(params, <<"p","e","r","i","o","d">>), <<"3","0">>))
        IN  [result |->
               Return([type |-> type,
                       label |-> Str(pathLabel),
                       secret |-> secret,
                       issuer |-> IF issuer = <<>> THEN Undefined ELSE Str(issuer),
                       algorithm |-> Str(NormalizeAlgorithm(algorithm)),
                       digits |-> NormalizeDigits(digits),
                       period |-> NormalizePeriod(period),
                       counter |-> ParseCounter(type, params)]),
             accountName |-> Str(LabelAccountName(pathLabel, issuerParam))]
      Checked(type, params, secret, pathLabel) ==
        IF ~IsSupportedType(type)
        THEN ParseFailure("Unsupported OTP type. Only TOTP and HOTP are supported")
        ELSE IF secret.t # "string" \/ secret.s = <<>>
        THEN ParseFailure("Secret parameter is required")
        ELSE IF ~validateSecret(secret)
        THEN ParseFailure("Invalid secret format")
        ELSE IF ~pathLabel.ok
        THEN ParseFailure(pathLabel.error)
        ELSE Descriptor(type, params, secret, pathLabel.value,
                        OrString(ParamsGet(params, <<"i","s","s","u","e","r">>), <<>>))
      WithParams(urlObj, params) ==
        Checked(toLowerCase(urlObj.hostname), params,
                ParamsGet(params, <<"s","e","c","r","e","t">>),
                decodeURIComponent(SubSeq(urlObj.pathname, 2, Len(urlObj.pathname))))
      OfURL(urlObj) ==
        IF ~urlObj.ok THEN ParseFailure(urlObj.error)
        ELSE IF urlObj.value.protocol # OtpauthProtocol
        THEN ParseFailure("Invalid OTPAuth URL protocol")
        ELSE WithParams(urlObj.value, ParseQuery(urlObj.value.query))
  IN  IF url.t # "string" THEN ParseFailure("Invalid URL")
      ELSE OfURL(ParseURL(url.s))

OtpauthTotpPrefix == <<"o","t","p","a","u","t","h",":","/","/","t","o","t","p","/">>

\* faulty variant: the label is put into the URL as it is
OTPAuthURLOfRawLabel(issuer, accountName, cleanSecret, options) ==
  LET label == IF issuer.s # <<>> THEN issuer.s \o <<":">> \o accountName.s
               ELSE accountName.s
      params ==
        << <<<<"s","e","c","r","e","t">>, cleanSecret>>,
           <<<<"i","s","s","u","e","r">>, issuer.s>>,
           <<<<"a","l","g","o","r","i","t","h","m">>, OrString(Field(options, "algorithm"), SHA1)>>,
           <<<<"d","i","g","i","t","s">>, NumberToString(OrNumber(Field(options, "digits"), 6))>>,
           <<<<"p","e","r","i","o","d">>, NumberToString(OrNumber(Field(options, "period"), 30))>> >>
  IN  Str(OtpauthTotpPrefix \o label \o <<"?">> \o ParamsToString(params))

\* the URL createOTPAuthURL builds around a cleaned secret
OTPAuthURLOf(issuer, accountName, cleanSecret, options) ==
  LET label == IF issuer.s # <<>> THEN issuer.s \o <<":">> \o accountName.s
               ELSE accountName.s
      params ==
        << <<<<"s","e","c","r","e","t">>, cleanSecret>>,
           <<<<"i","s","s","u","e","r">>, issuer.s>>,
           <<<<"a","l","g","o","r","i","t","h","m">>, OrString(Field(options, "algorithm"), SHA1)>>,
           <<<<"d","i","g","i","t","s">>, NumberToString(OrNumber(Field(options, "digits"), 6))>>,
           <<<<"p","e","r","i","o","d">>, NumberToString(OrNumber(Field(options, "period"), 30))>> >>
  IN  Str(OtpauthTotpPrefix \o encodeURIComponent(label) \o <<"?">>
            \o ParamsToString(params))

\* createOTPAuthURL(issuer, accountName, secret, options): the throw of
\* validateAndCleanSecret is not caught
createOTPAuthURL(issuer, accountName, secret, options) ==
  LET cleanSecret == validateAndCleanSecret(secret)
  IN  IF ~cleanSecret.ok THEN cleanSecret
      ELSE Return(OTPAuthURLOf(issuer, accountName, cleanSecret.value, options))

(***************************************************************************)
(* getCurrentTimeSlot, getTimeRemaining and the countdown of TOTPItem       *)
(***************************************************************************)
Infinity == [t |-> "Infinity"]

\* Math.floor(a / b) for a >= 0 and b # 0
FloorDiv(a, b) == IF b > 0 THEN a \div b ELSE -((a + (-b) - 1) \div (-b))

\* faulty variant: Math.round in place of Math.floor
getCurrentTimeSlotRounded(period, epoch) ==
  LET p == IF period = Undefined THEN 30 ELSE period.n
  IN  IF p = 0 THEN (IF epoch = 0 THEN NaN ELSE Infinity)
      ELSE Num(FloorDiv(2 * epoch + 1000 * p, 2000 * p))

\* getCurrentTimeSlot(period) with Date.now() = epoch
getCurrentTimeSlot(period, epoch) ==
  LET p == IF period = Undefined THEN 30 ELSE period.n
  IN  IF p = 0 THEN (IF epoch = 0 THEN NaN ELSE Infinity)
      ELSE Num(FloorDiv(epoch, 1000 * p))

\* faulty variant: the next slot starts one second early
getTimeRemainingOffByOne(period, epoch) ==
  LET p == IF period = Undefined THEN 30 ELSE period.n
      seconds == epoch \div 1000
  IN  IF p = 0 THEN NaN
      ELSE Num((FloorDiv(seconds, p) + 1) * p - 1 - seconds)

\* getTimeRemaining(period) with Date.now() = epoch
getTimeRemaining(period, epoch) ==
  LET p == IF period = Undefined THEN 30 ELSE period.n
      seconds == epoch \div 1000
      currentSlot == FloorDiv(seconds, p)
      nextSlotStart == (currentSlot + 1) * p
  IN  IF p = 0 THEN NaN
      ELSE Num(nextSlotStart - seconds)

\* the countdown of TOTPItem.updateTOTP: account.period - now % account.period
ItemTimeRemaining(period, epoch) ==
  LET seconds == epoch \div 1000
      magnitude == IF period < 0 THEN -period ELSE period
  IN  IF period = 0 THEN NaN
      ELSE Num(period - (seconds % magnitude))

\* TOTPItem.updateTOTP for an account with Date.now() = epoch: the code and
\* the countdown it displays, and totp.options afterwards
updateTOTP(account, epoch, shared) ==
  LET call == generateTOTP(account.secret, account.options, epoch, shared)
  IN  IF call.result.ok
      THEN [totpCode |-> call.result.value,
            timeRemaining |-> ItemTimeRemaining(account.options.period.n, epoch),
            options |-> call.options]
      ELSE [totpCode |-> Str(<<"E","R","R","O","R">>), timeRemaining |-> Num(0),
            options |-> call.options]

(***************************************************************************)
(* generateTestSecret: thirty-two's base32 encoder over random bytes        *)
(***************************************************************************)
Base32Alphabet == UpperLetters \o <<"2", "3", "4", "5", "6", "7">>

\* thirtyTwo.encode(bytes).toString(): 5 bits a character, most significant
\* bit first, zero bits to fill the last character and '=' up to a multiple
\* of 8 characters
Base32Encode(bytes) ==
  LET Bit(j) == IF (j \div 8) + 1 > Len(bytes) THEN 0
                ELSE (bytes[(j \div 8) + 1] \div (2 ^ (7 - (j % 8)))) % 2
      Quintet(k) == 16 * Bit(5 * k) + 8 * Bit(5 * k + 1) + 4 * Bit(5 * k + 2)
                      + 2 * Bit(5 * k + 3) + Bit(5 * k + 4)
      characters == (8 * Len(bytes) + 4) \div 5
      padded == ((characters + 7) \div 8) * 8
  IN  [i \in 1..padded |->
         IF i <= characters THEN Base32Alphabet[Quintet(i - 1) + 1] ELSE "="]

\* the number of random bytes of a test secret
TestSecretBytes == 20

\* faulty variant: 4 random bytes in place of 20
generateTestSecretFourBytes(randomBytes) ==
  Str(SelectSeq(Base32Encode(SubSeq(randomBytes, 1, 4)), LAMBDA c : c # "="))

\* generateTestSecret() when Crypto.getRandomBytes(20) returns randomBytes
generateTestSecret(randomBytes) ==
  Str(SelectSeq(Base32Encode(randomBytes), LAMBDA c : c # "="))

(***************************************************************************)
(* generateTOTPRange and its override of Date.now                           *)
(***************************************************************************)
\* Date.now(): the wall clock, or what the override returns
ReadDateNow(clock, epoch) == IF clock = NativeNow THEN epoch ELSE clock.ms

\* Date.now = () => timestamp * 1000
OverriddenNow(timestamp) == [t |-> "override", ms |-> timestamp * 1000]

\* faulty variant: Date.now is restored after a successful generateTOTP only
RECURSIVE RangeLoopNoFinally(_, _, _, _, _, _, _, _, _, _)
RangeLoopNoFinally(i, last, currentTimeSlot, period, secret, options, epoch, shared, clock, results) ==
  IF i > last
  THEN [result |-> Return(results), options |-> shared, dateNow |-> clock]
  ELSE LET timeSlot == currentTimeSlot + i
           timestamp == timeSlot * period
           originalNow == clock
           call == generateTOTP(secret, options,
                                ReadDateNow(OverriddenNow(timestamp), epoch), shared)
       IN  IF call.result.ok
           THEN RangeLoopNoFinally(i + 1, last, currentTimeSlot, period, secret, options, epoch,
                          call.options, originalNow,
                          Append(results, [code |-> call.result.value,
                                           timeSlot |-> timeSlot,
                                           validFrom |-> timestamp * 1000,
                                           validTo |-> (timestamp + period) * 1000]))
           ELSE [result |-> call.result, options |-> call.options,
                 dateNow |-> OverriddenNow(timestamp)]

\* the for loop of generateTOTPRange from i on: what the method returns or
\* throws, totp.options and Date.now afterwards
RECURSIVE RangeLoop(_, _, _, _, _, _, _, _, _, _)
RangeLoop(i, last, currentTimeSlot, period, secret, options, epoch, shared, clock, results) ==
  IF i > last
  THEN [result |-> Return(results), options |-> shared, dateNow |-> clock]
  ELSE LET timeSlot == currentTimeSlot + i
           timestamp == timeSlot * period
           originalNow == clock
           call == generateTOTP(secret, options,
                                ReadDateNow(OverriddenNow(timestamp), epoch), shared)
       IN  IF call.result.ok
           THEN RangeLoop(i + 1, last, currentTimeSlot, period, secret, options, epoch,
                          call.options, originalNow,
                          Append(results, [code |-> call.result.value,
                                           timeSlot |-> timeSlot,
                                           validFrom |-> timestamp * 1000,
                                           validTo |-> (timestamp + period) * 1000]))
           ELSE [result |-> call.result, options |-> call.options,
                 dateNow |-> originalNow]

\* generateTOTPRange(secret, periods, options) with the wall clock at epoch,
\* totp.options = shared and Date.now = clock
generateTOTPRange(secret, periods, options, epoch, shared, clock) ==
  LET period == OrNumber(Field(options, "period"), 30)
      count == IF periods = Undefined THEN 3 ELSE periods.n
  IN  RangeLoop(-(count \div 2), count \div 2,
                getCurrentTimeSlot(Num(period), ReadDateNow(clock, epoch)).n,
                period, secret, options, epoch, shared, clock, <<>>)

(***************************************************************************)
(* StorageService: the encryption key, the keychain and AsyncStorage.       *)
(* An encryption key is a number standing for the hex text of 32 random    *)
(* bytes.  An asynchronous method is a task: a record with the method, its *)
(* arguments and the await it is suspended at; one step of a task runs it  *)
(* from one await to the next.                                             *)
(***************************************************************************)
STORAGE_KEYS ==
  [ACCOUNTS |-> "@totp_accounts", ENCRYPTION_KEY |-> "totp_encryption_key",
   USER_PREFERENCES |-> "@user_preferences"]

\* the items of AsyncStorage the service uses
StorageItems ==
  {STORAGE_KEYS.ACCOUNTS, STORAGE_KEYS.USER_PREFERENCES, "@biometric_enabled",
   "@last_sync_time"}

\* AsyncStorage and the keychain of a fresh installation
EmptyStorage == [item \in StorageItems |-> Null]
EmptyKeychain == [internet |-> Null, generic |-> Null]

\* generateEncryptionKey(): the hex text of 32 random bytes, randomBytes
\* standing for what Crypto.getRandomBytes(32) returned
generateEncryptionKey(randomBytes) == [t |-> "string", hex |-> randomBytes]

\* JSON.stringify(value), and the text a wrong key decrypts to
JSONStringify(value) == [t |-> "json", value |-> value]
Garbled == [t |-> "garbled"]

\* JSON.parse(text)
JSONParse(text) ==
  IF text.t = "json" THEN Return(text.value)
  ELSE Throw("Unexpected token in JSON")

\* encrypt(data): XOR with the key and a random IV, then base64
encrypt(key, data) ==
  IF key = Null THEN Throw("Encryption key not available")
  ELSE Return([t |-> "cipher", key |-> key, plain |-> data])

\* decrypt(encryptedData): the XOR undone with the key in memory; another
\* key gives other bytes and no error
decrypt(key, encryptedData) ==
  IF key = Null THEN Throw("Encryption key not available")
  ELSE IF encryptedData.t # "cipher" THEN Throw("Failed to decrypt data: ")
  ELSE IF encryptedData.key = key THEN Return(encryptedData.plain)
  ELSE Return(Garbled)

\* accounts.map(account => ({...account, secret: await this.encrypt(account.secret)}))
EncryptSecrets(key, accounts) ==
  [i \in DOMAIN accounts |->
     [accounts[i] EXCEPT !.secret = encrypt(key, accounts[i].secret).value]]

\* encryptedAccounts.map(account => ({...account, secret: await this.decrypt(account.secret)})):
\* one rejected decrypt rejects the Promise.all
DecryptSecrets(key, encryptedAccounts) ==
  IF \E i \in DOMAIN encryptedAccounts : ~decrypt(key, encryptedAccounts[i].secret).ok
  THEN Throw("Failed to decrypt data: ")
  ELSE Return([i \in DOMAIN encryptedAccounts |->
                 [encryptedAccounts[i] EXCEPT
                    !.secret = decrypt(key, encryptedAccounts[i].secret).value]])

\* a call of saveAccounts(accounts) or loadAccounts() that has not run yet:
\* randomKey is what Crypto.getRandomBytes(32) gives it if it makes a key,
\* fault the AsyncStorage call of it that rejects, if any
StorageCall(op, accounts, randomKey, fault) ==
  [op |-> op, pc |-> "called", accounts |-> accounts, randomKey |-> randomKey,
   fault |-> fault, data |-> Null, result |-> Null]

\* the task done, with what it returned or threw
Done(task, result) == [task EXCEPT !.pc = "done", !.result = result]

\* after await this.initialize(): saveAccounts encrypts and calls
\* AsyncStorage.setItem, loadAccounts calls AsyncStorage.getItem
AfterInitialize(task, world) ==
  IF task.op = "saveAccounts"
  THEN [task |->
          [task EXCEPT
             !.pc = "setItem",
             !.data = encrypt(world.encryptionKey,
                              JSONStringify(EncryptSecrets(world.encryptionKey,
                                                           task.accounts))).value],
        world |-> world]
  ELSE [task |-> [task EXCEPT !.pc = "getItem"], world |-> world]

\* loadAccounts once AsyncStorage.getItem has resolved with encryptedData:
\* every failure is caught and gives []
LoadedAccounts(key, encryptedData) ==
  LET decryptedData == decrypt(key, encryptedData)
      encryptedAccounts == JSONParse(decryptedData.value)
      accounts == DecryptSecrets(key, encryptedAccounts.value)
  IN  IF encryptedData = Null THEN <<>>
      ELSE IF ~decryptedData.ok THEN <<>>
      ELSE IF ~encryptedAccounts.ok THEN <<>>
      ELSE IF ~accounts.ok THEN <<>>
      ELSE accounts.value

\* one step of a saveAccounts or loadAccounts task: from the call, or from
\* the await it is suspended at, to its next await or its end
StorageStep(task, world) ==
  CASE task.pc = "called" ->
         \* getOrCreateEncryptionKey: if (this.encryptionKey) return it
         IF world.encryptionKey # Null THEN AfterInitialize(task, world)
         ELSE [task |-> [task EXCEPT !.pc = "getInternetCredentials"], world |-> world]
    [] task.pc = "getInternetCredentials" ->
         IF world.keychain.internet # Null
         THEN AfterInitialize(task,
                [world EXCEPT !.encryptionKey = world.keychain.internet])
         ELSE [task |-> [task EXCEPT !.pc = "setInternetCredentials"], world |-> world]
    [] task.pc = "setInternetCredentials" ->
         AfterInitialize(task,
           [world EXCEPT !.keychain.internet = generateEncryptionKey(task.randomKey),
                         !.encryptionKey = generateEncryptionKey(task.randomKey),
                         !.keysCreated = world.keysCreated + 1])
    [] task.pc = "setItem" ->
         IF task.fault = "setItem"
         THEN [task |-> Done(task, Throw("Failed to save accounts to storage")),
               world |-> world]
         ELSE [task |-> Done(task, Return(Undefined)),
               world |-> [world EXCEPT
                            !.asyncStorage[STORAGE_KEYS.ACCOUNTS] = task.data]]
    [] task.pc = "getItem" ->
         IF task.fault = "getItem"
         THEN [task |-> Done(task, Return(<<>>)), world |-> world]
         ELSE [task |-> Done(task, Return(LoadedAccounts(world.encryptionKey,
                                  world.asyncStorage[STORAGE_KEYS.ACCOUNTS]))),
               world |-> world]

\* a task run from where it is to its end with nothing else in between
RECURSIVE RunToEnd(_, _)
RunToEnd(task, world) ==
  IF task.pc = "done" THEN [task |-> task, world |-> world]
  ELSE RunToEnd(StorageStep(task, world).task, StorageStep(task, world).world)

\* saveAccounts(accounts) and loadAccounts() with no other operation in flight
saveAccounts(accounts, world, randomKey, fault) ==
  RunToEnd(StorageCall("saveAccounts", accounts, randomKey, fault), world)

loadAccounts(world, randomKey, fault) ==
  RunToEnd(StorageCall("loadAccounts", <<>>, randomKey, fault), world)

\* loadUserPreferences(): data ? JSON.parse(data) : null, null when it throws
loadUserPreferences(store) ==
  LET data == store[STORAGE_KEYS.USER_PREFERENCES]
  IN  IF data = Null THEN Null
      ELSE IF JSONParse(data).ok THEN JSONParse(data).value ELSE Null

\* getBiometricPreference(): value === 'true'
getBiometricPreference(store) ==
  store["@biometric_enabled"] = Str(<<"t","r","u","e">>)

\* getLastSyncTime(): timestamp ? parseInt(timestamp) : 0
getLastSyncTime(store) ==
  LET timestamp == store["@last_sync_time"]
  IN  IF timestamp = Null THEN Num(0)
      ELSE IF timestamp.s = <<>> THEN Num(0) ELSE parseInt(timestamp.s)

\* clearAllData(): three items removed, then the generic password of the
\* keychain reset, then the key in memory dropped; a rejected removeItem
\* (fault) makes it throw before the keychain and the key are touched
clearAllData(world, fault) ==
  LET removed == [item \in StorageItems |->
                    IF item \in {STORAGE_KEYS.ACCOUNTS, STORAGE_KEYS.USER_PREFERENCES,
                                 "@biometric_enabled"} \ {fault}
                    THEN Null ELSE world.asyncStorage[item]]
  IN  IF fault # "none"
      THEN [result |-> Throw("Failed to clear all data"),
            world |-> [world EXCEPT !.asyncStorage = removed]]
      ELSE [result |-> Return(Undefined),
            world |-> [world EXCEPT !.asyncStorage = removed,
                                    !.keychain.generic = Null,
                                    !.encryptionKey = Null]]

(***************************************************************************)
(* FirebaseService: the account documents of one user and syncAccounts.     *)
(* The cloud is a record of the documents, in the order getDocs returns     *)
(* them, and of the number of document ids made so far.                     *)
(***************************************************************************)
\* the id the application gives a local account, Date.now().toString(), and
\* the id createAccount makes, Date.now() + '_' + random: never a local id
LocalId(at) == [at |-> at, random |-> 0]
CloudId(at, random) == [at |-> at, random |-> random]

EmptyCloud == [docs |-> <<>>, created |-> 0]

\* new Map(accounts.map(acc => [acc.id, acc])): has, get and set, the
\* entries in insertion order
MapHas(map, id) == \E i \in DOMAIN map : map[i].id = id
MapGet(map, id) == map[CHOOSE i \in DOMAIN map : map[i].id = id]
MapSet(map, id, value) ==
  IF MapHas(map, id)
  THEN [i \in DOMAIN map |-> IF map[i].id = id THEN value ELSE map[i]]
  ELSE Append(map, value)

\* new Map(list.map(acc => [acc.id, acc])): a later entry replaces an
\* earlier one with its id
RECURSIVE NewMap(_)
NewMap(list) ==
  IF list = <<>> THEN <<>>
  ELSE MapSet(NewMap(SubSeq(list, 1, Len(list) - 1)), list[Len(list)].id, list[Len(list)])

\* createAccount(userId, account) at Date.now() = epoch: the document is
\* stored under a new id, or setDoc rejects (fault) and success is false
createAccount(cloud, account, epoch, fault) ==
  IF fault = "setDoc"
  THEN [response |-> [success |-> FALSE, error |-> "Failed to create account"],
        cloud |-> cloud]
  ELSE [response |-> [success |-> TRUE, data |-> CloudId(epoch, cloud.created + 1)],
        cloud |->
          [docs |-> <<[id |-> CloudId(epoch, cloud.created + 1),
                       serviceName |-> account.serviceName,
                       accountName |-> account.accountName,
                       encryptedSecret |-> account.encryptedSecret,
                       algorithm |-> account.algorithm,
                       digits |-> account.digits,
                       period |-> account.period,
                       createdAt |-> epoch,
                       updatedAt |-> epoch]>> \o cloud.docs,
           created |-> cloud.created + 1]]

\* updateAccount(userId, accountId, updates): the fields are written and
\* updatedAt set, or updateDoc rejects (fault, or no such document)
updateAccount(cloud, accountId, updates, epoch, fault) ==
  IF fault = "updateDoc" \/ ~MapHas(cloud.docs, accountId)
  THEN [response |-> [success |-> FALSE, error |-> "Failed to update account"],
        cloud |-> cloud]
  ELSE [response |-> [success |-> TRUE],
        cloud |->
          [cloud EXCEPT
             !.docs = MapSet(cloud.docs, accountId,
                        [id |-> accountId,
                         serviceName |-> updates.serviceName,
                         accountName |-> updates.accountName,
                         encryptedSecret |-> updates.encryptedSecret,
                         algorithm |-> updates.algorithm,
                         digits |-> updates.digits,
                         period |-> updates.period,
                         createdAt |-> MapGet(cloud.docs, accountId).createdAt,
                         updatedAt |-> epoch])]]

\* getAccounts(userId): the documents, or success false when getDocs rejects
getAccounts(cloud, fault) ==
  IF fault = "getDocs"
  THEN [success |-> FALSE, error |-> "Failed to get accounts"]
  ELSE [success |-> TRUE, data |-> cloud.docs]

\* faulty variant: only the names are compared
hasConflictNamesOnly(local, cloud) ==
  \/ local.serviceName # cloud.serviceName
  \/ local.accountName # cloud.accountName

\* hasConflict(local, cloud)
hasConflict(local, cloud) ==
  \/ local.serviceName # cloud.serviceName
  \/ local.accountName # cloud.accountName
  \/ local.algorithm # cloud.algorithm
  \/ local.digits # cloud.digits
  \/ local.period # cloud.period

\* the fields of a cloud document taken from a local account
CloudFields(localAccount, encryptedSecret) ==
  [serviceName |-> localAccount.serviceName,
   accountName |-> localAccount.accountName,
   encryptedSecret |-> encryptedSecret,
   algorithm |-> localAccount.algorithm,
   digits |-> localAccount.digits,
   period |-> localAccount.period]

\* the local account made of a cloud document: id and the rest of kept come
\* from the local side, the content from the cloud
LocalFields(id, cloudAccount, decryptedSecret, epoch) ==
  [id |-> id,
   serviceName |-> cloudAccount.serviceName,
   accountName |-> cloudAccount.accountName,
   secret |-> decryptedSecret,
   algorithm |-> cloudAccount.algorithm,
   digits |-> cloudAccount.digits,
   period |-> cloudAccount.period,
   syncStatus |-> "synced",
   lastModified |-> epoch]

\* resolveConflicts, first loop from the i-th local account on: accounts
\* that are pending and not in the cloud are uploaded; sync carries
\* localMap, the cloud and the three counters
RECURSIVE UploadLoop(_, _, _, _, _, _, _)
UploadLoop(i, localAccounts, cloudMap, key, epoch, fault, sync) ==
  IF i > Len(localAccounts) THEN sync
  ELSE LET localAccount == localAccounts[i]
           encryptedSecret == encrypt(key, localAccount.secret)
       IN  IF MapHas(cloudMap, localAccount.id) \/ localAccount.syncStatus # "pending"
           THEN UploadLoop(i + 1, localAccounts, cloudMap, key, epoch, fault, sync)
           ELSE IF ~encryptedSecret.ok
           THEN UploadLoop(i + 1, localAccounts, cloudMap, key, epoch, fault,
                           [sync EXCEPT !.conflicts = sync.conflicts + 1])
           ELSE UploadLoop(i + 1, localAccounts, cloudMap, key, epoch, fault,
                  [sync EXCEPT
                     !.cloud = createAccount(sync.cloud,
                                 CloudFields(localAccount, encryptedSecret.value),
                                 epoch, fault).cloud,
                     !.localMap = MapSet(sync.localMap, localAccount.id,
                                    [localAccount EXCEPT !.syncStatus = "synced"]),
                     !.uploaded = sync.uploaded + 1])

\* second loop from the i-th fetched cloud account on: accounts not in
\* localMap are downloaded
RECURSIVE DownloadLoop(_, _, _, _, _)
DownloadLoop(i, cloudAccounts, key, epoch, sync) ==
  IF i > Len(cloudAccounts) THEN sync
  ELSE LET cloudAccount == cloudAccounts[i]
           decryptedSecret == decrypt(key, cloudAccount.encryptedSecret)
       IN  IF MapHas(sync.localMap, cloudAccount.id)
           THEN DownloadLoop(i + 1, cloudAccounts, key, epoch, sync)
           ELSE IF ~decryptedSecret.ok
           THEN DownloadLoop(i + 1, cloudAccounts, key, epoch,
                             [sync EXCEPT !.conflicts = sync.conflicts + 1])
           ELSE DownloadLoop(i + 1, cloudAccounts, key, epoch,
                  [sync EXCEPT
                     !.localMap = MapSet(sync.localMap, cloudAccount.id,
                                    LocalFields(cloudAccount.id, cloudAccount,
                                                decryptedSecret.value, epoch)),
                     !.downloaded = sync.downloaded + 1])

\* third loop from the i-th local account on: an account in the cloud with
\* a differing field goes to the cloud when the local copy is newer and
\* comes from the cloud otherwise
RECURSIVE ConflictLoop(_, _, _, _, _, _, _)
ConflictLoop(i, localAccounts, cloudMap, key, epoch, fault, sync) ==
  IF i > Len(localAccounts) THEN sync
  ELSE LET localAccount == localAccounts[i]
           cloudAccount == MapGet(cloudMap, localAccount.id)
           encryptedSecret == encrypt(key, localAccount.secret)
           decryptedSecret == decrypt(key, cloudAccount.encryptedSecret)
       IN  IF ~MapHas(cloudMap, localAccount.id)
           THEN ConflictLoop(i + 1, localAccounts, cloudMap, key, epoch, fault, sync)
           ELSE IF ~hasConflict(localAccount, cloudAccount)
           THEN ConflictLoop(i + 1, localAccounts, cloudMap, key, epoch, fault, sync)
           ELSE IF localAccount.lastModified > cloudAccount.updatedAt
           THEN (IF ~encryptedSecret.ok
                 THEN ConflictLoop(i + 1, localAccounts, cloudMap, key, epoch, fault,
                                   [sync EXCEPT !.conflicts = sync.conflicts + 1])
                 ELSE ConflictLoop(i + 1, localAccounts, cloudMap, key, epoch, fault,
                        [sync EXCEPT
                           !.cloud = updateAccount(sync.cloud, localAccount.id,
                                       CloudFields(localAccount, encryptedSecret.value),
                                       epoch, fault).cloud,
                           !.uploaded = sync.uploaded + 1]))
           ELSE IF ~decryptedSecret.ok
           THEN ConflictLoop(i + 1, localAccounts, cloudMap, key, epoch, fault,
                             [sync EXCEPT !.conflicts = sync.conflicts + 1])
           ELSE ConflictLoop(i + 1, localAccounts, cloudMap, key, epoch, fault,
                  [sync EXCEPT
                     !.localMap = MapSet(sync.localMap, localAccount.id,
                                    LocalFields(localAccount.id, cloudAccount,
                                                decryptedSecret.value, epoch)),
                     !.downloaded = sync.downloaded + 1])

\* resolveConflicts(userId, localAccounts, cloudAccounts) up to the save:
\* localMap, the cloud and the counters after the three loops
resolveConflicts(localAccounts, cloudAccounts, cloud, key, epoch, fault) ==
  ConflictLoop(1, localAccounts, NewMap(cloudAccounts), key, epoch, fault,
    DownloadLoop(1, cloudAccounts, key, epoch,
      UploadLoop(1, localAccounts, NewMap(cloudAccounts), key, epoch, fault,
        [localMap |-> NewMap(localAccounts), cloud |-> cloud,
         uploaded |-> 0, downloaded |-> 0, conflicts |-> 0])))

\* syncAccounts(userId) at Date.now() = epoch with no other operation in
\* flight: the response, StorageService and the cloud afterwards.  fault
\* names the call of the environment that rejects during this sync, if any
syncAccounts(world, cloud, epoch, randomKey, fault) ==
  LET Saved(resolved, saved) ==
        IF saved.task.result.ok
        THEN [response |-> [success |-> TRUE,
                            data |-> [uploaded |-> resolved.uploaded,
                                      downloaded |-> resolved.downloaded,
                                      conflicts |-> resolved.conflicts]],
              world |-> saved.world, cloud |-> resolved.cloud]
        ELSE [response |-> [success |-> FALSE, error |-> "Failed to sync accounts"],
              world |-> saved.world, cloud |-> resolved.cloud]
      Resolved(loaded, resolved) ==
        Saved(resolved, saveAccounts(resolved.localMap, loaded.world, randomKey, fault))
      Loaded(loaded, cloudResult) ==
        IF ~cloudResult.success
        THEN [response |-> [success |-> FALSE, error |-> "Failed to sync accounts"],
              world |-> loaded.world, cloud |-> cloud]
        ELSE Resolved(loaded,
               resolveConflicts(loaded.task.result.value, cloudResult.data, cloud,
                                loaded.world.encryptionKey, epoch, fault))
  IN  Loaded(loadAccounts(world, randomKey, fault), getAccounts(cloud, fault))

(***************************************************************************)
(* SessionManager (src/unnamed/part_011): the session of a signed-in user   *)
(* with its two timers, the dialogs it opens and the AppState listener      *)
(***************************************************************************)
\* SessionManager.createDefault: the configuration AuthContext uses
createDefault == [sessionTimeout |-> 15 * 60 * 1000, warningTime |-> 2 * 60 * 1000]

\* setTimeout(callback, delay) called at epoch: the handle kept in the field.
\* The callback runs once, at due or later; the field keeps the handle after
\* that until clearTimers writes null
setTimeout(delay, epoch) == [due |-> epoch + delay, fired |-> FALSE]

\* a timer whose callback is still to run
IsPending(timer) == timer # Null /\ ~timer.fired

\* new SessionManager(config) at Date.now() = epoch: the field initialisers
\* and setupAppStateListener, which registers the listener.  started and
\* expiredCalls count the startSession calls and the calls of
\* config.onSessionExpired
NewSessionManager(config, epoch) ==
  [sessionTimer |-> Null, warningTimer |-> Null, lastActivity |-> epoch,
   isActive |-> FALSE, config |-> config, appStateSubscription |-> TRUE,
   started |-> 0, expiredCalls |-> 0]

\* clearTimers()
clearTimers(s) == [s EXCEPT !.sessionTimer = Null, !.warningTimer = Null]

\* cleanup(): clearTimers and appStateSubscription.remove()
cleanup(s) == [clearTimers(s) EXCEPT !.appStateSubscription = FALSE]

\* stopSession()
stopSession(s) == cleanup(clearTimers([s EXCEPT !.isActive = FALSE]))

\* resetActivityTimer() at Date.now() = epoch
resetActivityTimer(s, epoch) ==
  IF ~s.isActive THEN s
  ELSE [clearTimers(s) EXCEPT
          !.lastActivity = epoch,
          !.warningTimer = setTimeout(s.config.sessionTimeout - s.config.warningTime,
                                      epoch),
          !.sessionTimer = setTimeout(s.config.sessionTimeout, epoch)]

\* startSession(user) at Date.now() = epoch
startSession(s, epoch) ==
  resetActivityTimer([s EXCEPT !.isActive = TRUE, !.started = s.started + 1], epoch)

\* isSessionExpired() at Date.now() = epoch
isSessionExpired(s, epoch) ==
  IF ~s.isActive THEN FALSE
  ELSE epoch - s.lastActivity > s.config.sessionTimeout

\* SessionManager.getTimeRemaining() at Date.now() = epoch
sessionTimeRemaining(s, epoch) ==
  IF ~s.isActive THEN 0
  ELSE IF s.config.sessionTimeout - (epoch - s.lastActivity) > 0
       THEN s.config.sessionTimeout - (epoch - s.lastActivity)
       ELSE 0

\* Alert.alert(title, ...): one more dialog with this title is open
AlertAlert(open, title) ==
  open \cup {[title |-> title,
              n |-> 1 + Cardinality({d \in open : d.title = title})]}

\* a button of a dialog with this title is pressed: the dialog closes
Dismiss(open, title) ==
  open \ {[title |-> title, n |-> Cardinality({d \in open : d.title = title})]}

\* showWarning(): the dialog opens; config.onWarning is empty
showWarning(s, open) ==
  [session |-> s, alerts |-> AlertAlert(open, "Session Expiring")]

\* handleSessionExpired()
handleSessionExpired(s, open) ==
  [session |-> stopSession(s), alerts |-> AlertAlert(open, "Session Expired")]

\* the listener setupAppStateListener registers, run for nextAppState at
\* Date.now() = epoch
appStateListener(s, open, nextAppState, epoch) ==
  IF ~s.isActive THEN [session |-> s, alerts |-> open]
  ELSE IF nextAppState = "active"
  THEN (IF isSessionExpired(s, epoch)
        THEN handleSessionExpired(s, open)
        ELSE [session |-> resetActivityTimer(s, epoch), alerts |-> open])
  ELSE IF nextAppState = "background"
  THEN [session |-> [s EXCEPT !.lastActivity = epoch], alerts |-> open]
  ELSE [session |-> s, alerts |-> open]

(***************************************************************************)
(* State machine                                                           *)
(***************************************************************************)
\* otplib's defaults for the options TOTPService has not written yet
OtplibDefaults == [digits |-> 6, step |-> 30, algorithm |-> "sha1", window |-> 0]

Init ==
  /\ now = 0
  /\ totpOptions = OtplibDefaults
  /\ held = None
  /\ OthersIdle
  /\ arg = None
  /\ ret = None

\* a caller calls generateTOTP and keeps the code it gets
GenerateTOTP(secret, options) ==
  LET call == generateTOTP(secret, options, now, totpOptions)
  IN  /\ totpOptions' = call.options
      /\ ret' = [op |-> "generateTOTP", secret |-> secret, options |-> options,
                 result |-> call.result]
      /\ held' = IF call.result.ok
                 THEN [kind |-> "code", code |-> call.result.value,
                       secret |-> secret, options |-> options, at |-> now]
                 ELSE held
      /\ UNCHANGED <<now, arg, others>>

ValidateTOTP(code, secret, options) ==
  LET call == validateTOTP(code, secret, options, now, totpOptions)
  IN  /\ totpOptions' = call.options
      /\ ret' = [op |-> "validateTOTP", code |-> code, secret |-> secret,
                 options |-> options, result |-> call.result]
      /\ UNCHANGED <<now, held, arg, others>>

\* the wall clock moves on by step milliseconds
Tick(step, limit) ==
  /\ now + step <= limit
  /\ now' = now + step
  /\ ret' = None
  /\ UNCHANGED <<totpOptions, held, arg, others>>

\* the wall clock is set back by step milliseconds
ClockBack(step) ==
  /\ now - step >= 0
  /\ now' = now - step
  /\ ret' = None
  /\ UNCHANGED <<totpOptions, held, arg, others>>

\* validateSecret(secret)
ValidateSecret(secret) ==
  /\ ret' = [op |-> "validateSecret", secret |-> secret,
             result |-> Return(validateSecret(secret))]
  /\ UNCHANGED <<now, totpOptions, held, arg, others>>

\* createOTPAuthURL(issuer, accountName, secret, options)
CreateOTPAuthURL(issuer, accountName, secret, options) ==
  /\ ret' = [op |-> "createOTPAuthURL", issuer |-> issuer,
             accountName |-> accountName, secret |-> secret, options |-> options,
             result |-> createOTPAuthURL(issuer, accountName, secret, options)]
  /\ UNCHANGED <<now, totpOptions, held, arg, others>>

\* parseOTPAuthURL(url)
ParseOTPAuthURL(url) ==
  LET call == parseOTPAuthURL(url)
  IN  /\ ret' = [op |-> "parseOTPAuthURL", url |-> url, result |-> call.result,
                 accountName |-> call.accountName]
      /\ UNCHANGED <<now, totpOptions, held, arg, others>>

\* a caller parses the URL createOTPAuthURL has just returned, keeping the
\* call that made it
ParseCreatedURL ==
  /\ ret.op = "createOTPAuthURL"
  /\ ret.result.ok
  /\ LET call == parseOTPAuthURL(ret.result.value)
     IN  ret' = [op |-> "parseOTPAuthURL", url |-> ret.result.value,
                 result |-> call.result, accountName |-> call.accountName]
  /\ held' = [kind |-> "url", call |-> ret]
  /\ UNCHANGED <<now, totpOptions, arg, others>>

\* getCurrentTimeSlot(period)
GetCurrentTimeSlot(period) ==
  /\ ret' = [op |-> "getCurrentTimeSlot", period |-> period,
             result |-> getCurrentTimeSlot(period, now)]
  /\ UNCHANGED <<now, totpOptions, held, arg, others>>

\* getTimeRemaining(period)
GetTimeRemaining(period) ==
  /\ ret' = [op |-> "getTimeRemaining", period |-> period,
             result |-> getTimeRemaining(period, now)]
  /\ UNCHANGED <<now, totpOptions, held, arg, others>>

\* the TOTPItem of an account refreshes its code and its countdown
UpdateTOTP(account) ==
  LET shown == updateTOTP(account, now, totpOptions)
  IN  /\ totpOptions' = shown.options
      /\ ret' = [op |-> "updateTOTP", account |-> account,
                 totpCode |-> shown.totpCode, timeRemaining |-> shown.timeRemaining]
      /\ UNCHANGED <<now, held, arg, others>>

\* generateTestSecret(), the random bytes being randomBytes
GenerateTestSecret(randomBytes) ==
  /\ ret' = [op |-> "generateTestSecret", randomBytes |-> randomBytes,
             result |-> generateTestSecret(randomBytes)]
  /\ UNCHANGED <<now, totpOptions, held, arg, others>>

\* generateTOTPRange(secret, periods, options)
GenerateTOTPRange(secret, periods, options) ==
  LET call == generateTOTPRange(secret, periods, options, now, totpOptions, dateNow)
  IN  /\ ret' = [op |-> "generateTOTPRange", secret |-> secret, periods |-> periods,
                 options |-> options, dateNowBefore |-> dateNow,
                 result |-> call.result]
      /\ totpOptions' = call.options
      /\ dateNow' = call.dateNow
      /\ UNCHANGED <<now, held, arg, session, alerts, encryptionKey, keychain,
                     asyncStorage, firestore, tasks>>

\* any other code calls Date.now()
ReadClock ==
  /\ ret' = [op |-> "Date.now", value |-> ReadDateNow(dateNow, now)]
  /\ UNCHANGED <<now, totpOptions, held, arg, others>>

\* StorageService with the keychain and AsyncStorage, as one record
World ==
  [encryptionKey |-> encryptionKey, keychain |-> keychain,
   asyncStorage |-> asyncStorage, keysCreated |-> tasks.keysCreated]

\* a saveAccounts or loadAccounts call returns or throws: the caller has
\* its result and the task is over
Settle(id, step) ==
  /\ encryptionKey' = step.world.encryptionKey
  /\ keychain' = step.world.keychain
  /\ asyncStorage' = step.world.asyncStorage
  /\ tasks' = [running |-> [tasks.running EXCEPT
                              ![id] = IF step.task.pc = "done" THEN Null ELSE step.task],
               calls |-> tasks.calls,
               keysCreated |-> step.world.keysCreated]
  /\ ret' = IF step.task.pc = "done"
            THEN [op |-> step.task.op, accounts |-> step.task.accounts,
                  result |-> step.task.result]
            ELSE None

\* saveAccounts(accounts) or loadAccounts() is called while fewer than limit
\* calls have been made: it runs to its first await on the keychain or on
\* AsyncStorage
CallStorage(id, op, accounts, fault, limit) ==
  /\ tasks.running[id] = Null
  /\ tasks.calls < limit
  /\ tasks' = [tasks EXCEPT
                 !.running[id] =
                   StorageStep(StorageCall(op, accounts, tasks.calls + 1, fault), World).task,
                 !.calls = tasks.calls + 1]
  /\ ret' = None
  /\ UNCHANGED <<now, totpOptions, held, arg, dateNow, session, alerts, encryptionKey,
                 keychain, asyncStorage, firestore>>

\* the await a task is suspended at resolves and the task runs to its next
\* await or to its end
ResumeStorage(id) ==
  /\ tasks.running[id] # Null
  /\ Settle(id, StorageStep(tasks.running[id], World))
  /\ UNCHANGED <<now, totpOptions, held, arg, dateNow, session, alerts, firestore>>

\* saveUserPreferences(preferences)
SaveUserPreferences(preferences) ==
  /\ asyncStorage' = [asyncStorage EXCEPT
                        ![STORAGE_KEYS.USER_PREFERENCES] = JSONStringify(preferences)]
  /\ ret' = [op |-> "saveUserPreferences", preferences |-> preferences]
  /\ UNCHANGED <<now, totpOptions, held, arg, dateNow, session, alerts, encryptionKey,
                 keychain, firestore, tasks>>

\* saveBiometricPreference(enabled): enabled.toString() is stored
SaveBiometricPreference(enabled) ==
  /\ asyncStorage' = [asyncStorage EXCEPT
                        !["@biometric_enabled"] =
                          IF enabled THEN Str(<<"t","r","u","e">>)
                          ELSE Str(<<"f","a","l","s","e">>)]
  /\ ret' = [op |-> "saveBiometricPreference", enabled |-> enabled]
  /\ UNCHANGED <<now, totpOptions, held, arg, dateNow, session, alerts, encryptionKey,
                 keychain, firestore, tasks>>

\* setLastSyncTime(timestamp): timestamp.toString() is stored
SetLastSyncTime(timestamp) ==
  /\ asyncStorage' = [asyncStorage EXCEPT
                        !["@last_sync_time"] = Str(NumberToString(timestamp))]
  /\ ret' = [op |-> "setLastSyncTime", timestamp |-> timestamp]
  /\ UNCHANGED <<now, totpOptions, held, arg, dateNow, session, alerts, encryptionKey,
                 keychain, firestore, tasks>>

\* loadUserPreferences(), getBiometricPreference() or getLastSyncTime()
ReadStorage(op) ==
  /\ ret' = [op |-> op,
             result |-> CASE op = "loadUserPreferences" -> loadUserPreferences(asyncStorage)
                          [] op = "getBiometricPreference" ->
                               getBiometricPreference(asyncStorage)
                          [] op = "getLastSyncTime" -> getLastSyncTime(asyncStorage)]
  /\ UNCHANGED <<now, totpOptions, held, arg, others>>

\* clearAllData()
ClearAllData(fault) ==
  LET call == clearAllData(World, fault)
  IN  /\ encryptionKey' = call.world.encryptionKey
      /\ keychain' = call.world.keychain
      /\ asyncStorage' = call.world.asyncStorage
      /\ ret' = [op |-> "clearAllData", result |-> call.result]
      /\ UNCHANGED <<now, totpOptions, held, arg, dateNow, session, alerts, firestore,
                     tasks>>

\* syncAccounts(userId), with no other operation in flight; the caller keeps
\* what the sync did and what was stored before it
SyncAccounts(fault, limit) ==
  LET call == syncAccounts(World, firestore, now, tasks.calls + 1, fault)
  IN  /\ \A id \in DOMAIN tasks.running : tasks.running[id] = Null
      /\ tasks.calls < limit
      /\ encryptionKey' = call.world.encryptionKey
      /\ keychain' = call.world.keychain
      /\ asyncStorage' = call.world.asyncStorage
      /\ tasks' = [tasks EXCEPT !.calls = tasks.calls + 1,
                                !.keysCreated = call.world.keysCreated]
      /\ firestore' = call.cloud
      /\ ret' = [op |-> "syncAccounts", fault |-> fault, response |-> call.response]
      /\ held' = [kind |-> "sync", fault |-> fault, response |-> call.response,
                  localBefore |-> LoadedAccounts(keychain.internet,
                                    asyncStorage[STORAGE_KEYS.ACCOUNTS]),
                  cloudBefore |-> firestore.docs,
                  previous |-> IF held = None THEN None
                               ELSE [held EXCEPT !.previous = None]]
      /\ UNCHANGED <<now, totpOptions, arg, dateNow, session, alerts>>

\* a SessionManager callback or method has run: the instance and the open
\* dialogs it leaves, and what an observer records of the run
SessionStep(after, observed) ==
  /\ session' = after.session
  /\ alerts' = after.alerts
  /\ ret' = observed
  /\ UNCHANGED <<now, totpOptions, held, arg, dateNow, encryptionKey, keychain,
                 asyncStorage, firestore, tasks>>

\* AuthContext's onAuthStateChanged listener: startSession for a signed-in
\* user, stopSession for none
AuthStateChanged(signedIn, limit) ==
  IF signedIn
  THEN /\ session.sm.started < limit
       /\ SessionStep([session |-> [session EXCEPT !.sm = startSession(session.sm, now)],
                       alerts |-> alerts],
                      [op |-> "startSession"])
  ELSE SessionStep([session |-> [session EXCEPT !.sm = stopSession(session.sm)],
                    alerts |-> alerts],
                   [op |-> "stopSession"])

\* a user interaction: AuthContext's resetSessionTimer calls resetActivityTimer
ResetActivityTimer ==
  /\ session # None
  /\ SessionStep([session |-> [session EXCEPT
                                !.sm = resetActivityTimer(session.sm, now)],
                  alerts |-> alerts],
                 [op |-> "resetActivityTimer", wasActive |-> session.sm.isActive])

\* the warning timer's callback runs: showWarning
WarningTimerFires ==
  /\ IsPending(session.sm.warningTimer)
  /\ now >= session.sm.warningTimer.due
  /\ LET after == showWarning([session.sm EXCEPT !.warningTimer.fired = TRUE], alerts)
     IN  SessionStep([session |-> [session EXCEPT !.sm = after.session],
                      alerts |-> after.alerts],
                     [op |-> "warningTimer"])

\* the session timer's callback runs, after the warning timer's when that is
\* due no later: handleSessionExpired.  The observer records what
\* getTimeRemaining() returns as the callback starts
SessionTimerFires ==
  /\ IsPending(session.sm.sessionTimer)
  /\ now >= session.sm.sessionTimer.due
  /\ ~(/\ IsPending(session.sm.warningTimer)
       /\ session.sm.warningTimer.due <= session.sm.sessionTimer.due)
  /\ LET after == handleSessionExpired([session.sm EXCEPT !.sessionTimer.fired = TRUE],
                                       alerts)
     IN  SessionStep([session |-> [session EXCEPT !.sm = after.session],
                      alerts |-> after.alerts],
                     [op |-> "sessionTimer", wasActive |-> session.sm.isActive,
                      elapsed |-> now - session.sm.lastActivity,
                      remaining |-> sessionTimeRemaining(session.sm, now)])

\* a button of an open dialog is pressed
Press(title, button) ==
  /\ \E d \in alerts : d.title = title
  /\ LET open == Dismiss(alerts, title)
         after ==
           CASE title = "Session Expiring" /\ button = "Continue Session" ->
                  [session |-> resetActivityTimer(session.sm, now), alerts |-> open]
             [] title = "Session Expiring" /\ button = "Sign Out" ->
                  handleSessionExpired(session.sm, open)
             [] title = "Session Expired" /\ button = "OK" ->
                  \* config.onSessionExpired
                  [session |-> [session.sm EXCEPT
                                  !.expiredCalls = session.sm.expiredCalls + 1],
                   alerts |-> open]
     IN  SessionStep([session |-> [session EXCEPT !.sm = after.session],
                      alerts |-> after.alerts],
                     [op |-> "press", button |-> button,
                      wasActive |-> session.sm.isActive])

\* the app moves to nextAppState: the listener runs if it is registered
AppStateChange(nextAppState) ==
  /\ nextAppState # session.appState
  /\ LET after == IF session.sm.appStateSubscription
                  THEN appStateListener(session.sm, alerts, nextAppState, now)
                  ELSE [session |-> session.sm, alerts |-> alerts]
     IN  SessionStep([session |-> [sm |-> after.session, appState |-> nextAppState],
                      alerts |-> after.alerts],
                     [op |-> "appState", nextAppState |-> nextAppState,
                      wasActive |-> session.sm.isActive,
                      expired |-> isSessionExpired(session.sm, now),
                      listening |-> session.sm.appStateSubscription])

(***************************************************************************)
(* Spec: a caller generates the codes of one account (a secret and its     *)
(* options) and validates codes, with a clock of 15 s steps                *)
(***************************************************************************)
MaxSteps == 4
ClockStep == 15 * 1000

Options(algorithm, digits, period, window) ==
  [t |-> "object", algorithm |-> algorithm, digits |-> digits,
   period |-> period, window |-> window]

OtherOptions == Options(Str(SHA256), Num(8), Num(60), Num(2))

TotpOptionValues ==
  { Undefined,
    Options(Undefined, Num(7), Undefined, Undefined),
    OtherOptions,
    Options(Str(SHA512), Num(6), Num(30), Num(0)),
    Options(Str(MD5), Num(9), Num(0), Undefined),
    Options(Str(SHA1), Num(6), Num(15), Num(1)) }

ValidSecrets == {Str(HelloSecret), Str(HelloSecretTyped), Str(PaddedSecret)}
TotpSecrets == ValidSecrets \cup {Str(ShortSecret), Str(NotBase32), Undefined}

WrongCodes == {Str(<<"0","0","0","0","0","0">>), Str(<<"1","2","a","4","5","6">>)}

\* what a caller validates: the code it holds or a wrong one, with the
\* account's secret and options or with others
CodesToCheck == IF held = None THEN WrongCodes ELSE WrongCodes \cup {held.code}
SecretsToCheck == {arg.secret, Str(OtherSecret)}
OptionsToCheck == {arg.options, OtherOptions}

InitTotp ==
  /\ now = 0
  /\ totpOptions = OtplibDefaults
  /\ held = None
  /\ OthersIdle
  /\ arg \in [secret : TotpSecrets, options : TotpOptionValues]
  /\ ret = None

Issuers == {Str(<<>>), Str(<<"A","C","M","E">>)}
AccountNames == {Str(<<"a","@","b",".","c">>)}

Next ==
  \/ GenerateTOTP(arg.secret, arg.options)
  \/ \E issuer \in Issuers, accountName \in AccountNames :
       CreateOTPAuthURL(issuer, accountName, arg.secret, arg.options)
  \/ \E code \in CodesToCheck, secret \in SecretsToCheck, options \in OptionsToCheck :
       ValidateTOTP(code, secret, options)
  \/ Tick(ClockStep, MaxSteps * ClockStep)
  \/ ClockBack(ClockStep)

Spec == InitTotp /\ [][Next]_vars

(***************************************************************************)
(* SpecWindow: one secret, window = 1 and period = 30, a clock of seconds  *)
(***************************************************************************)
WindowMaxSeconds == 125

WindowOptions == Options(Str(SHA1), Num(6), Num(30), Num(1))

NextWindow ==
  \/ GenerateTOTP(Str(HelloSecret), WindowOptions)
  \/ held # None /\ ValidateTOTP(held.code, held.secret, held.options)
  \/ Tick(1000, WindowMaxSeconds * 1000)
  \/ ClockBack(1000)

SpecWindow == Init /\ [][NextWindow]_vars

(***************************************************************************)
(* SpecSecret: validateSecret on each input                                *)
(***************************************************************************)
InitSecret ==
  /\ now = 0
  /\ totpOptions = OtplibDefaults
  /\ held = None
  /\ OthersIdle
  /\ arg \in SecretInputs
  /\ ret = None

NextSecret == ValidateSecret(arg)

SpecSecret == InitSecret /\ [][NextSecret]_vars

(***************************************************************************)
(* SpecParse: parseOTPAuthURL on each URL                                  *)
(***************************************************************************)
\* the pieces joined by sep, empty pieces left out
RECURSIVE Join(_, _)
Join(pieces, sep) ==
  IF pieces = <<>> THEN <<>>
  ELSE IF Head(pieces) = <<>> THEN Join(Tail(pieces), sep)
  ELSE LET rest == Join(Tail(pieces), sep)
       IN  IF rest = <<>> THEN Head(pieces) ELSE Head(pieces) \o sep \o rest

UrlOf(scheme, host, label, query) ==
  scheme \o <<":","/","/">> \o host \o <<"/">> \o label
    \o (IF query = <<>> THEN <<>> ELSE <<"?">> \o query)

UrlSchemes ==
    {<<"o","t","p","a","u","t","h">>,
     <<"O","T","P","A","U","T","H">>,
     <<"h","t","t","p","s">>,
     <<"o","t","p","a","u","t","h","s">>}
UrlHosts ==
    {<<"t","o","t","p">>,
     <<"h","o","t","p">>,
     <<"T","O","T","P">>,
     <<"s","o","t","p">>,
     <<>>}
UrlLabels ==
    {<<"X">>,
     <<"E","x","a","m","p","l","e",":","a","l","i","c","e">>,
     <<"E","x","a","m","p","l","e",":","a","l","i","c","e",":","d","e","v">>,
     <<"E","x","a","m","p","l","e","%","3","A","a","l","i","c","e","%","3","A","d","e","v">>,
     <<"E","x","a","m","p","l","e","%","3","a","a","l","i","c","e">>,
     <<":","a","l","i","c","e">>,
     <<"a","l","i","c","e",":">>,
     <<"a"," ","b">>,
     <<"A","%","z","z">>,
     <<"A","%">>,
     <<>>}
SecretParams ==
    {<<>>,
     <<"s","e","c","r","e","t","=">>,
     <<"s","e","c","r","e","t","=","J","B","S","W","Y","3","D","P","E","H","P","K","3","P","X","P">>,
     <<"s","e","c","r","e","t","=","A","A","A","A">>,
     <<"s","e","c","r","e","t","=","j","b","s","w","+","y","3","d","p","+","e","h","p","k","+","3","p","x","p">>,
     <<"s","e","c","r","e","t","=","J","B","S","W","Y","3","D","P","%","3","D","%","3","D">>,
     <<"S","e","c","r","e","t","=","J","B","S","W","Y","3","D","P","E","H","P","K","3","P","X","P">>,
     <<"s","e","c","r","e","t","=","&","s","e","c","r","e","t","=","J","B","S","W","Y","3","D","P","E","H","P","K","3","P","X","P">>,
     <<"s","e","c","r","e","t","=","J","B","S","W","Y","3","D","P","!">>}
GoodSecretParam == <<"s","e","c","r","e","t","=","J","B","S","W","Y","3","D","P","E","H","P","K","3","P","X","P">>
IssuerParams ==
    {<<>>,
     <<"i","s","s","u","e","r","=","A","C","M","E">>,
     <<"i","s","s","u","e","r","=">>,
     <<"i","s","s","u","e","r","=","B","i","g","%","2","0","C","o","r","p">>}
DigitsParams ==
    {<<>>,
     <<"d","i","g","i","t","s","=","6">>,
     <<"d","i","g","i","t","s","=","7">>,
     <<"d","i","g","i","t","s","=","8">>,
     <<"d","i","g","i","t","s","=","9">>,
     <<"d","i","g","i","t","s","=","a","b","c">>,
     <<"d","i","g","i","t","s","=">>,
     <<"d","i","g","i","t","s","=","8","x">>,
     <<"d","i","g","i","t","s","=","0","8">>,
     <<"d","i","g","i","t","s","=","-","7">>}
PeriodParams ==
    {<<>>,
     <<"p","e","r","i","o","d","=","3","0">>,
     <<"p","e","r","i","o","d","=","0">>,
     <<"p","e","r","i","o","d","=","-","5">>,
     <<"p","e","r","i","o","d","=","3","0","1">>,
     <<"p","e","r","i","o","d","=","3","0","0">>,
     <<"p","e","r","i","o","d","=","1">>,
     <<"p","e","r","i","o","d","=","a","b","c">>,
     <<"p","e","r","i","o","d","=","6","0">>,
     <<"p","e","r","i","o","d","=","1",".","5">>,
     <<"p","e","r","i","o","d","=">>,
     <<"p","e","r","i","o","d","=","1","2","a","b","c">>,
     <<"p","e","r","i","o","d","=","+","4","5">>,
     <<"p","e","r","i","o","d","=","x","3","0">>}
AlgorithmParams ==
    {<<>>,
     <<"a","l","g","o","r","i","t","h","m","=","s","h","a","2","5","6">>,
     <<"a","l","g","o","r","i","t","h","m","=","S","H","A","5","1","2">>,
     <<"a","l","g","o","r","i","t","h","m","=","M","D","5">>,
     <<"a","l","g","o","r","i","t","h","m","=">>,
     <<"a","l","g","o","r","i","t","h","m","=","S","h","a","1">>}
CounterParams ==
    {<<>>,
     <<"c","o","u","n","t","e","r","=","0">>,
     <<"c","o","u","n","t","e","r","=","5">>,
     <<"c","o","u","n","t","e","r","=","x">>,
     <<"c","o","u","n","t","e","r","=">>}

UrlStrings ==
  { UrlOf(scheme, host, <<"X">>, secret) :
      scheme \in UrlSchemes, host \in UrlHosts, secret \in SecretParams }
  \cup
  { UrlOf(<<"o","t","p","a","u","t","h">>, host, label, Join(<<GoodSecretParam, issuer>>, <<"&">>)) :
      host \in {TotpType, HotpType}, label \in UrlLabels, issuer \in IssuerParams }
  \cup
  { UrlOf(<<"o","t","p","a","u","t","h">>, host, <<"X">>, Join(<<digits, GoodSecretParam, algorithm>>, <<"&">>)) :
      host \in {TotpType, HotpType}, digits \in DigitsParams,
      algorithm \in AlgorithmParams }
  \cup
  { UrlOf(<<"o","t","p","a","u","t","h">>, host, <<"X">>, Join(<<GoodSecretParam, period, counter>>, <<"&">>)) :
      host \in {TotpType, HotpType}, period \in PeriodParams,
      counter \in CounterParams }
  \cup
  { <<"t","o","t","p","/","X","?","s","e","c","r","e","t","=","J","B","S","W","Y","3","D","P","E","H","P","K","3","P","X","P">>,
    <<"o","t","p","a","u","t","h",":","t","o","t","p","/","X","?","s","e","c","r","e","t","=","J","B","S","W","Y","3","D","P","E","H","P","K","3","P","X","P">>,
    <<"o","t","p","a","u","t","h",":","/","/","t","o","t","p","?","s","e","c","r","e","t","=","J","B","S","W","Y","3","D","P","E","H","P","K","3","P","X","P">>,
    <<"o","t","p","a","u","t","h",":","/","/","t","o","t","p","/","X","?","s","e","c","r","e","t","=","J","B","S","W","Y","3","D","P","E","H","P","K","3","P","X","P","#","p","e","r","i","o","d","=","a","b","c">>,
    <<"o","t","p","a","u","t","h",":","/","/","t","o"," ","t","p","/","X","?","s","e","c","r","e","t","=","J","B","S","W","Y","3","D","P","E","H","P","K","3","P","X","P">>,
    <<>> }

UrlInputs == {Str(u) : u \in UrlStrings} \cup {Undefined}

InitParse ==
  /\ now = 0
  /\ totpOptions = OtplibDefaults
  /\ held = None
  /\ OthersIdle
  /\ arg \in UrlInputs
  /\ ret = None

NextParse == ParseOTPAuthURL(arg)

SpecParse == InitParse /\ [][NextParse]_vars

(***************************************************************************)
(* SpecRoundTrip: createOTPAuthURL, then parseOTPAuthURL of what it built   *)
(***************************************************************************)
RoundTripIssuers == {Str(<<>>), Str(<<"A","C","M","E">>), Str(<<"a","l","i","c","e">>), Str(<<"A",":","B">>)}

RoundTripAccountNames ==
  {Str(<<"a","l","i","c","e">>), Str(<<"d","e","v">>), Str(<<"a","l","i","c","e",":","d","e","v">>),
   Str(<<"a","@","b",".","c">>), Str(<<>>),
   Str(<<"/","?","#","&","=","%"," ","+">>)}

RoundTripOptions ==
  {Undefined,
   OtherOptions,
   Options(Str(SHA512), Num(7), Num(300), Undefined),
   Options(Undefined, Undefined, Num(1), Undefined),
   Options(Str(MD5), Num(9), Num(0), Undefined)}

InitRoundTrip ==
  /\ now = 0
  /\ totpOptions = OtplibDefaults
  /\ held = None
  /\ OthersIdle
  /\ arg \in [issuer : RoundTripIssuers, accountName : RoundTripAccountNames,
              secret : {Str(HelloSecretTyped), Str(PaddedSecret), Str(ShortSecret)},
              options : RoundTripOptions]
  /\ ret = None

NextRoundTrip ==
  \/ CreateOTPAuthURL(arg.issuer, arg.accountName, arg.secret, arg.options)
  \/ ParseCreatedURL

SpecRoundTrip == InitRoundTrip /\ [][NextRoundTrip]_vars

(***************************************************************************)
(* SpecTime: the codes, the time slot and the countdown of one account as   *)
(* the clock moves in steps of 2.5 s                                        *)
(***************************************************************************)
MaxTimeSteps == 26
TimeStep == 5 * 500

\* the periods of the accounts; 0 is what a damaged record may hold
AccountPeriods == {1, 7, 30, 60, 0}

InitTime ==
  /\ now = 0
  /\ totpOptions = OtplibDefaults
  /\ held = None
  /\ OthersIdle
  /\ arg \in [secret : {Str(HelloSecret), Str(ShortSecret)},
              options : {Options(Str(SHA1), Num(6), Num(period), Undefined) :
                           period \in AccountPeriods}]
  /\ ret = None

NextTime ==
  \/ GenerateTOTP(arg.secret, arg.options)
  \/ UpdateTOTP(arg)
  \/ \E period \in {arg.options.period, Undefined} : GetCurrentTimeSlot(period)
  \/ \E period \in {arg.options.period, Undefined} : GetTimeRemaining(period)
  \/ Tick(TimeStep, MaxTimeSteps * TimeStep)

SpecTime == InitTime /\ [][NextTime]_vars

(***************************************************************************)
(* SpecRandom: generateTestSecret over 20 random bytes                      *)
(***************************************************************************)
MaxStride == 3

\* what Crypto.getRandomBytes(20) may return: every first byte, the bytes
\* after it a fixed stride apart
RandomBytes ==
  { [i \in 1..TestSecretBytes |-> (first + (i - 1) * stride * 37) % 256] :
      first \in 0..255, stride \in 0..MaxStride }

InitRandom ==
  /\ now = 0
  /\ totpOptions = OtplibDefaults
  /\ held = None
  /\ OthersIdle
  /\ arg \in RandomBytes
  /\ ret = None

NextRandom == GenerateTestSecret(arg)

SpecRandom == InitRandom /\ [][NextRandom]_vars

(***************************************************************************)
(* SpecRange: generateTOTPRange between other readers of the clock          *)
(***************************************************************************)
MaxPeriods == 4

\* the wall clock when the first call is made, in milliseconds
RangeStart == 600000

InitRange ==
  /\ now = RangeStart
  /\ totpOptions = OtplibDefaults
  /\ held = None
  /\ OthersIdle
  /\ arg \in [secret : {Str(HelloSecret), Str(ShortSecret), Str(NotBase32), Undefined},
              periods : {Undefined} \cup {Num(n) : n \in 0..MaxPeriods},
              options : {Undefined, OtherOptions,
                         Options(Str(SHA1), Num(6), Num(15), Num(1)),
                         Options(Str(MD5), Num(9), Num(0), Undefined)}]
  /\ ret = None

NextRange ==
  \/ GenerateTOTPRange(arg.secret, arg.periods, arg.options)
  \/ ReadClock
  \/ Tick(TimeStep, RangeStart + MaxTimeSteps * TimeStep)

SpecRange == InitRange /\ [][NextRange]_vars

(***************************************************************************)
(* SpecStorage: StorageService on a fresh installation, its asynchronous    *)
(* saveAccounts and loadAccounts calls interleaving                         *)
(***************************************************************************)
MaxTasks == 2
MaxCalls == 3

\* a LocalTOTPAccount
LocalAccount(id, serviceName, period, syncStatus, lastModified) ==
  [id |-> id, serviceName |-> serviceName, accountName |-> "alice",
   secret |-> HelloSecret, algorithm |-> SHA1, digits |-> 6, period |-> period,
   syncStatus |-> syncStatus, lastModified |-> lastModified]

\* what the application saves: one account, or two
AccountLists ==
  { <<LocalAccount(LocalId(1), "Mail", 30, "pending", 5)>>,
    <<LocalAccount(LocalId(1), "Mail", 30, "synced", 5),
      LocalAccount(LocalId(2), "Bank", 60, "pending", 7)>> }

\* no asynchronous operation in flight, none made yet
NoTasks == [running |-> [id \in 1..MaxTasks |-> Null], calls |-> 0, keysCreated |-> 0]

InitStorage ==
  /\ now = 0
  /\ totpOptions = OtplibDefaults
  /\ held = None
  /\ arg = None
  /\ ret = None
  /\ dateNow = NativeNow
  /\ session = None
  /\ alerts = {}
  /\ firestore = None
  /\ encryptionKey = Null
  /\ keychain = EmptyKeychain
  /\ asyncStorage = EmptyStorage
  /\ tasks = NoTasks

NextStorage ==
  \/ \E id \in 1..MaxTasks, accounts \in AccountLists :
       CallStorage(id, "saveAccounts", accounts, "none", MaxCalls)
  \/ \E id \in 1..MaxTasks : CallStorage(id, "loadAccounts", <<>>, "none", MaxCalls)
  \/ \E id \in 1..MaxTasks : ResumeStorage(id)
  \/ SaveUserPreferences([theme |-> "dark"])
  \/ \E enabled \in BOOLEAN : SaveBiometricPreference(enabled)
  \/ SetLastSyncTime(1234)
  \/ \E op \in {"loadUserPreferences", "getBiometricPreference", "getLastSyncTime"} :
       ReadStorage(op)
  \/ \E fault \in {"none", "@totp_accounts"} : ClearAllData(fault)

SpecStorage == InitStorage /\ [][NextStorage]_vars

(***************************************************************************)
(* SpecSync: syncAccounts run again and again on a device holding a         *)
(* locally created account and a copy of a cloud account                    *)
(***************************************************************************)
MaxSyncs == 2
MaxSyncTicks == 1

\* the wall clock when the first sync runs
SyncStart == 20

\* the account created on the device and not uploaded yet, or none
CreatedLocally == {<<>>, <<LocalAccount(LocalId(1), "Mail", 30, "pending", 5)>>}

\* the device's copy of the cloud account: none, as downloaded, or edited on
\* the device before or after the cloud copy was last written
DownloadedCopies ==
  {<<>>,
   <<LocalAccount(CloudId(2, 1), "Bank", 30, "synced", 10)>>,
   <<LocalAccount(CloudId(2, 1), "Bank", 60, "pending", 15)>>,
   <<LocalAccount(CloudId(2, 1), "Bank", 60, "pending", 8)>>}

\* the cloud account: none, as the device saw it, or renamed elsewhere
CloudCopies ==
  {<<>>} \cup
  {<<[id |-> CloudId(2, 1), serviceName |-> serviceName, accountName |-> "alice",
      encryptedSecret |-> encrypt(generateEncryptionKey(1), HelloSecret).value,
      algorithm |-> SHA1, digits |-> 6, period |-> 30,
      createdAt |-> 2, updatedAt |-> 10]>> : serviceName \in {"Bank", "Work"}}

InitSync ==
  /\ now = SyncStart
  /\ totpOptions = OtplibDefaults
  /\ held = None
  /\ arg = None
  /\ ret = None
  /\ dateNow = NativeNow
  /\ session = None
  /\ alerts = {}
  /\ \E created \in CreatedLocally, copy \in DownloadedCopies :
       LET world == saveAccounts(created \o copy,
                                 [encryptionKey |-> Null, keychain |-> EmptyKeychain,
                                  asyncStorage |-> EmptyStorage, keysCreated |-> 0],
                                 1, "none").world
       IN  /\ encryptionKey = world.encryptionKey
           /\ keychain = world.keychain
           /\ asyncStorage = world.asyncStorage
  /\ \E docs \in CloudCopies : firestore = [docs |-> docs, created |-> 1]
  /\ tasks = [NoTasks EXCEPT !.calls = 1, !.keysCreated = 1]

NextSync ==
  \/ \E fault \in {"none", "getItem", "getDocs", "setDoc", "updateDoc", "setItem"} :
       SyncAccounts(fault, 1 + MaxSyncs)
  \/ Tick(1, SyncStart + MaxSyncTicks)

SpecSync == InitSync /\ [][NextSync]_vars

(***************************************************************************)
(* SpecSession: AuthContext's SessionManager over a quarter of an hour of   *)
(* sign-ins, sign-outs, interactions, app state changes, timers and dialogs *)
(***************************************************************************)
MaxSessions == 2
MaxSessionTicks == 16
SessionTick == 60 * 1000

InitSession ==
  /\ now = 0
  /\ totpOptions = OtplibDefaults
  /\ held = None
  /\ arg = None
  /\ ret = None
  /\ dateNow = NativeNow
  /\ session = [sm |-> NewSessionManager(createDefault, 0), appState |-> "active"]
  /\ alerts = {}
  /\ encryptionKey = None
  /\ keychain = None
  /\ asyncStorage = None
  /\ firestore = None
  /\ tasks = None

NextSession ==
  \/ AuthStateChanged(TRUE, MaxSessions)
  \/ AuthStateChanged(FALSE, MaxSessions)
  \/ ResetActivityTimer
  \/ WarningTimerFires
  \/ SessionTimerFires
  \/ Press("Session Expiring", "Continue Session")
  \/ Press("Session Expiring", "Sign Out")
  \/ Press("Session Expired", "OK")
  \/ AppStateChange("active")
  \/ AppStateChange("inactive")
  \/ AppStateChange("background")
  \/ Tick(SessionTick, MaxSessionTicks * SessionTick)

SpecSession == InitSession /\ [][NextSession]_vars

(***************************************************************************)
(* Properties                                                              *)
(***************************************************************************)
\* the digits a caller asks for: options.digits, 6 when omitted
RequestedDigits(options) ==
  IF options.t = "undefined" THEN 6
  ELSE IF options.digits.t = "undefined" THEN 6 ELSE options.digits.n

\* the period a caller asks for, in seconds: options.period, 30 when omitted or 0
RequestedPeriod(options) ==
  IF options.t = "undefined" THEN 30
  ELSE IF options.period.t = "undefined" THEN 30
  ELSE IF options.period.n = 0 THEN 30 ELSE options.period.n

IsDecimalString(v, width) ==
  /\ v.t = "string"
  /\ Len(v.s) = width
  /\ \A i \in 1..Len(v.s) : v.s[i] \in {"0","1","2","3","4","5","6","7","8","9"}

\* C1: for a valid secret and digits d in {6,7,8} (6 when omitted),
\* generateTOTP returns a string of exactly d decimal digits.
C1_DigitWidth ==
  (/\ ret.op = "generateTOTP"
   /\ validateSecret(ret.secret)
   /\ RequestedDigits(ret.options) \in {6, 7, 8})
  => /\ ret.result.ok
     /\ IsDecimalString(ret.result.value, RequestedDigits(ret.options))

\* C1 witness: a 7-digit code with a leading zero was returned.
C1_Witness ==
  /\ ret.op = "generateTOTP"
  /\ ret.result.ok
  /\ RequestedDigits(ret.options) = 7
  /\ Len(ret.result.value.s) = 7
  /\ ret.result.value.s[1] = "0"

\* C2: a code returned by generateTOTP is accepted by validateTOTP called
\* with the same secret and options within the same time period.
C2_GeneratedCodeValidates ==
  (/\ ret.op = "validateTOTP"
   /\ held # None
   /\ ret.code = held.code
   /\ ret.secret = held.secret
   /\ ret.options = held.options
   /\ now \div (RequestedPeriod(held.options) * 1000)
        = held.at \div (RequestedPeriod(held.options) * 1000))
  => ret.result = Return(TRUE)

\* C2 witness: a code generated with options of its own was validated
\* later in its period and was accepted.
C2_Witness ==
  /\ ret.op = "validateTOTP"
  /\ held # None
  /\ ret.code = held.code
  /\ ret.secret = held.secret
  /\ ret.options = held.options
  /\ ret.options # Undefined
  /\ now > held.at
  /\ now \div (RequestedPeriod(held.options) * 1000)
       = held.at \div (RequestedPeriod(held.options) * 1000)
  /\ ret.result = Return(TRUE)

\* the codes of the counters of the modelled clock range are pairwise distinct
WindowCodesDiffer ==
  \A c1, c2 \in 0..((WindowMaxSeconds \div 30) + 1) :
    c1 # c2 =>
      hotpToken(HelloSecret, c1, BuildTotpOptions(WindowOptions))
        # hotpToken(HelloSecret, c2, BuildTotpOptions(WindowOptions))

\* C3: with window = 1 and period = 30, a code generated at T is accepted at
\* every time in [T-30, T+30] and, codes of distinct counters being
\* distinct, rejected at T-61 and at T+61.
C3_WindowOfOnePeriod ==
  (/\ ret.op = "validateTOTP"
   /\ held # None
   /\ ret.code = held.code)
  => /\ (now >= held.at - 30000 /\ now <= held.at + 30000)
          => ret.result = Return(TRUE)
     /\ (WindowCodesDiffer /\ (now = held.at - 61000 \/ now = held.at + 61000))
          => ret.result = Return(FALSE)

\* C3 witness: a code generated at T was rejected at T + 61 s, and the
\* codes of distinct counters differ.
C3_Witness ==
  /\ ret.op = "validateTOTP"
  /\ held # None
  /\ ret.code = held.code
  /\ WindowCodesDiffer
  /\ now = held.at + 61000
  /\ ret.result = Return(FALSE)

\* the claim's description of an acceptable secret
IsAcceptableSecret(v) ==
  /\ v.t = "string"
  /\ Len(v.s) > 0
  /\ LET c == toUpperCase(RemoveWhitespace(v.s))
     IN  \E k \in MinSecretLength..Len(c) :
           /\ \A i \in 1..k : c[i] \in Base32Chars
           /\ \A i \in (k + 1)..Len(c) : c[i] = "="

\* C4: validateSecret(s) returns true exactly when s is a non-empty string
\* that, cleaned, matches ^[A-Z2-7]+=*$ with at least 8 characters before
\* the padding; otherwise it returns false, and it never throws.
C4_ValidateSecret ==
  ret.op = "validateSecret"
  => /\ ret.result.ok
     /\ ret.result.value = IsAcceptableSecret(ret.secret)
     /\ (ret.secret = Str(ShortSecret) => ret.result.value = FALSE)
     /\ (ret.secret = Str(NotBase32) => ret.result.value = FALSE)
     /\ (ret.secret = Str(HelloSecret) => ret.result.value = TRUE)

\* C4 witness: a padded secret of exactly 8 characters before the padding,
\* typed with white space, was accepted.
C4_Witness ==
  /\ ret.op = "validateSecret"
  /\ ret.secret.t = "string"
  /\ Len(RemoveWhitespace(ret.secret.s)) < Len(ret.secret.s)
  /\ TrailingPad(RemoveWhitespace(ret.secret.s)) > 0
  /\ Len(StripPadding(RemoveWhitespace(ret.secret.s))) = MinSecretLength
  /\ ret.result = Return(TRUE)

\* C5: generateTOTP and createOTPAuthURL throw, returning no code and no
\* URI, for every secret that secret validation rejects.
C5_RejectedSecretThrows ==
  (/\ ret.op \in {"generateTOTP", "createOTPAuthURL"}
   /\ ~validateSecret(ret.secret))
  => ~ret.result.ok

\* C5 witness: generateTOTP was called with the 4-character secret and threw.
C5_Witness ==
  /\ ret.op = "generateTOTP"
  /\ ret.secret = Str(ShortSecret)
  /\ ~ret.result.ok

\* C6: validateTOTP never throws; it returns false when the secret fails
\* validation and when the code matches no counter in the window.
C6_ValidateNeverThrows ==
  ret.op = "validateTOTP"
  => /\ ret.result.ok
     /\ ret.result.value \in BOOLEAN
     /\ ~validateSecret(ret.secret) => ret.result.value = FALSE
     /\ ret.result.value = TRUE
          => /\ ret.code.t = "string"
             /\ \E i \in -totpOptions.window..totpOptions.window :
                  ret.code.s =
                    hotpToken(validateAndCleanSecret(ret.secret).value,
                              totpCounter(now, totpOptions.step) + i,
                              totpOptions)

\* C6 witness: validateTOTP was called with a secret that fails validation
\* and returned false.
C6_Witness ==
  /\ ret.op = "validateTOTP"
  /\ ~validateSecret(ret.secret)
  /\ ret.result = Return(FALSE)

\* what the platform's URL parser makes of the URL of the last call
UrlOfCall == ParseURL(ret.url.s)
ParamOfCall(name) == ParamsGet(ParseQuery(UrlOfCall.value.query), name)

\* the URL of the last call has the scheme, a host and a secret that
\* parseOTPAuthURL requires
HasRequiredParts ==
  /\ ret.url.t = "string"
  /\ UrlOfCall.ok
  /\ UrlOfCall.value.protocol = OtpauthProtocol
  /\ toLowerCase(UrlOfCall.value.hostname) \in {TotpType, HotpType}
  /\ ParamOfCall(<<"s","e","c","r","e","t">>) # Null
  /\ ParamOfCall(<<"s","e","c","r","e","t">>).s # <<>>
  /\ validateSecret(ParamOfCall(<<"s","e","c","r","e","t">>))

\* the label of the URL of the last call can be decoded
HasDecodableLabel ==
  decodeURIComponent(SubSeq(UrlOfCall.value.pathname, 2,
                            Len(UrlOfCall.value.pathname))).ok

\* C7: parseOTPAuthURL fails whenever the scheme is not otpauth, the host is
\* neither totp nor hotp, the secret parameter is missing or empty, or the
\* secret fails secret validation.
C7_ParseRejects ==
  (ret.op = "parseOTPAuthURL" /\ ~HasRequiredParts)
  => /\ ~ret.result.ok
     /\ ret.accountName = Undefined

\* C7 witness: an otpauth://totp URL whose secret fails validation was
\* rejected.
C7_Witness ==
  /\ ret.op = "parseOTPAuthURL"
  /\ ret.url.t = "string"
  /\ UrlOfCall.ok
  /\ UrlOfCall.value.protocol = OtpauthProtocol
  /\ UrlOfCall.value.hostname = TotpType
  /\ ParamOfCall(<<"s","e","c","r","e","t">>) = Str(ShortSecret)
  /\ ~ret.result.ok

IsNumeral(s) == Len(s) > 0 /\ \A i \in 1..Len(s) : s[i] \in DigitChars

\* the number a decimal numeral writes
RECURSIVE NumeralValue(_)
NumeralValue(s) ==
  IF s = <<>> THEN 0
  ELSE 10 * NumeralValue(SubSeq(s, 1, Len(s) - 1)) + IndexOf(Digits, s[Len(s)]) - 1

C9_PeriodInRange ==
  (ret.op = "parseOTPAuthURL" /\ ret.result.ok)
  => /\ ret.result.value.period.t = "number"
     /\ ret.result.value.period.n \in 1..300

\* the text of s after its first sep
AfterFirst(s, sep) == SubSeq(s, FindFrom(s, sep, 1) + 1, Len(s))
BeforeFirst(s, sep) == SubSeq(s, 1, FindFrom(s, sep, 1) - 1)

\* C10: without an issuer parameter and with ':' in the decoded label, the
\* issuer is the text before the first ':' and the account name is all of
\* the text after it.
C10_SplitOnFirstColon ==
  (/\ ret.op = "parseOTPAuthURL"
   /\ ret.result.ok
   /\ ParamOfCall(<<"i","s","s","u","e","r">>) = Null
   /\ ":" \in Range(ret.result.value.label.s))
  => /\ ret.result.value.issuer
          = (IF BeforeFirst(ret.result.value.label.s, ":") = <<>> THEN Undefined
             ELSE Str(BeforeFirst(ret.result.value.label.s, ":")))
     /\ ret.accountName = Str(AfterFirst(ret.result.value.label.s, ":"))

\* C11: with an issuer parameter and ':' in the decoded label, the issuer of
\* the descriptor is the parameter's value and the account name is the part
\* of the label after the ':'.
C11_IssuerParamWins ==
  (/\ ret.op = "parseOTPAuthURL"
   /\ ret.result.ok
   /\ ParamOfCall(<<"i","s","s","u","e","r">>) # Null
   /\ ParamOfCall(<<"i","s","s","u","e","r">>).s # <<>>
   /\ ":" \in Range(ret.result.value.label.s))
  => /\ ret.result.value.issuer = ParamOfCall(<<"i","s","s","u","e","r">>)
     /\ ret.accountName = Str(AfterFirst(ret.result.value.label.s, ":"))

\* options with algorithm in {SHA1,SHA256,SHA512}, digits in {6,7,8} and
\* period in [1,300], each of them where given
OptionsInRange(options) ==
  \/ options = Undefined
  \/ /\ options.algorithm = Undefined \/ options.algorithm.s \in {SHA1, SHA256, SHA512}
     /\ options.digits = Undefined \/ options.digits.n \in {6, 7, 8}
     /\ options.period = Undefined \/ options.period.n \in 1..300

\* the descriptor parseOTPAuthURL returns for the URL createOTPAuthURL builds
RoundTripOf(issuer, accountName, secret, options) ==
  parseOTPAuthURL(createOTPAuthURL(issuer, accountName, secret, options).value).result

\* C12: for a valid secret and options in range,
\* parseOTPAuthURL(createOTPAuthURL(issuer, accountName, secret, options))
\* succeeds with the same secret, algorithm, digits and period, and no other
\* issuer and accountName give the same descriptor, so that both can be
\* reconstructed from it.
C12_RoundTrip ==
  (/\ ret.op = "parseOTPAuthURL"
   /\ held # None
   /\ held.kind = "url"
   /\ OptionsInRange(held.call.options))
  => LET made == held.call
     IN  /\ ret.result.ok
         /\ ret.result.value.secret = Str(validateAndCleanSecret(made.secret).value)
         /\ ret.result.value.algorithm
              = Str(OrString(Field(made.options, "algorithm"), SHA1))
         /\ ret.result.value.digits = Num(OrNumber(Field(made.options, "digits"), 6))
         /\ ret.result.value.period = Num(OrNumber(Field(made.options, "period"), 30))
         /\ \A issuer \in RoundTripIssuers, accountName \in RoundTripAccountNames :
              RoundTripOf(issuer, accountName, made.secret, made.options) = ret.result
                => issuer = made.issuer /\ accountName = made.accountName

C14_WindowAsSupplied ==
  (/\ ret.op = "validateTOTP"
   /\ validateSecret(ret.secret)
   /\ ret.options # Undefined
   /\ ret.options.window # Undefined
   /\ ret.options.window.n >= 0)
  => LET w == ret.options.window.n
         base == totpCounter(now, RequestedPeriod(ret.options))
     IN  ret.result.value
           = (/\ isTokenValid(ret.code)
              /\ \E counter \in base - w..base + w :
                   ret.code.s = hotpToken(validateAndCleanSecret(ret.secret).value,
                                          counter, totpOptions))

\* C15: for one secret, algorithm, digits and period, generateTOTP returns
\* the same code at two times of the same time slot, and
\* getCurrentTimeSlot(period) is floor(unixSeconds / period) for every
\* positive integer period.
C15_SameSlotSameCode ==
  /\ (/\ ret.op = "updateTOTP"
      /\ held # None
      /\ held.secret = ret.account.secret
      /\ held.options = ret.account.options
      /\ RequestedPeriod(held.options) > 0
      /\ (held.at \div 1000) \div RequestedPeriod(held.options)
           = (now \div 1000) \div RequestedPeriod(held.options))
     => ret.totpCode = held.code
  /\ (/\ ret.op = "getCurrentTimeSlot"
      /\ ret.period # Undefined
      /\ ret.period.n > 0)
     => ret.result = Num((now \div 1000) \div ret.period.n)
  /\ (ret.op = "getCurrentTimeSlot" /\ ret.period = Undefined)
     => ret.result = Num((now \div 1000) \div 30)

\* C15 witness: the item shows, 5 s or more after generateTOTP returned a
\* code and at a time that is not a whole second, the same code in the same
\* slot of a period of 7 s.
C15_Witness ==
  /\ ret.op = "updateTOTP"
  /\ held # None
  /\ held.options.period = Num(7)
  /\ now >= held.at + 5000
  /\ now % 1000 # 0
  /\ (held.at \div 1000) \div 7 = (now \div 1000) \div 7
  /\ ret.totpCode = held.code

\* C18: getTimeRemaining(period) is period - (now mod period), now being the
\* Unix time in whole seconds, so it lies in [1, period] and is period on a
\* period boundary; the countdown TOTPItem computes is the same value.
C18_TimeRemaining ==
  /\ ret.op = "getTimeRemaining"
     => LET period == IF ret.period = Undefined THEN 30 ELSE ret.period.n
        IN  period >= 1
              => /\ ret.result = Num(period - ((now \div 1000) % period))
                 /\ ret.result.n \in 1..period
  /\ (/\ ret.op = "updateTOTP"
      /\ validateSecret(ret.account.secret)
      /\ ret.account.options.period.n >= 1)
     => /\ ret.timeRemaining
             = Num(ret.account.options.period.n
                     - ((now \div 1000) % ret.account.options.period.n))
        /\ ret.timeRemaining = getTimeRemaining(ret.account.options.period, now)

\* C18 witness: on a boundary of the period of 30 s, half a minute or more
\* after the start, getTimeRemaining(30) returned 30.
C18_Witness ==
  /\ ret.op = "getTimeRemaining"
  /\ ret.period = Num(30)
  /\ now >= 30000
  /\ (now \div 1000) % 30 = 0
  /\ ret.result = Num(30)

\* C16: no shared state influences a call: after any earlier generateTOTP
\* and validateTOTP calls with other options, each of which writes otplib's
\* totp.options, a call returns what it would return as the first call made
\* with its secret, options and clock value.
C16_CallsIndependent ==
  /\ ret.op = "generateTOTP"
     => ret.result = generateTOTP(ret.secret, ret.options, now, OtplibDefaults).result
  /\ ret.op = "validateTOTP"
     => ret.result
          = validateTOTP(ret.code, ret.secret, ret.options, now, OtplibDefaults).result

\* C16 witness: validateTOTP was called with other options than the earlier
\* generateTOTP call whose code the caller holds, and totp.options, which
\* that call had written, now holds the values of this call.
C16_Witness ==
  /\ ret.op = "validateTOTP"
  /\ held # None
  /\ held.options = Options(Str(SHA1), Num(6), Num(15), Num(1))
  /\ ret.options = OtherOptions
  /\ ret.secret = held.secret
  /\ ret.code = held.code
  /\ totpOptions = [digits |-> 8, step |-> 60, algorithm |-> "sha256", window |-> 2]

\* options with every out-of-range field replaced by its default: digits
\* outside {6,7,8} by 6, period outside [1,300] by 30, an unsupported
\* algorithm by SHA1
DefaultsForOutOfRange(options) ==
  IF options = Undefined THEN Undefined
  ELSE Options(IF options.algorithm # Undefined
                    /\ options.algorithm.s \notin {SHA1, SHA256, SHA512}
               THEN Str(SHA1) ELSE options.algorithm,
               IF options.digits # Undefined /\ options.digits.n \notin {6, 7, 8}
               THEN Num(6) ELSE options.digits,
               IF options.period # Undefined /\ options.period.n \notin 1..300
               THEN Num(30) ELSE options.period,
               options.window)

\* C17: generateTOTP and validateTOTP treat every out-of-range parameter as
\* its default: digits outside {6,7,8} as 6, period outside [1,300] as 30,
\* an unsupported algorithm as SHA1.
C17_OutOfRangeNormalized ==
  /\ ret.op = "generateTOTP"
     => ret.result = generateTOTP(ret.secret, DefaultsForOutOfRange(ret.options),
                                  now, OtplibDefaults).result
  /\ ret.op = "validateTOTP"
     => ret.result = validateTOTP(ret.code, ret.secret,
                                  DefaultsForOutOfRange(ret.options),
                                  now, OtplibDefaults).result

\* C19: parseOTPAuthURL puts a counter on the descriptor only when the type
\* is hotp and a counter parameter is present, and it is then the integer
\* written in the URL, 0 included; a totp descriptor never has a counter.
C19_CounterOnlyForHotp ==
  (ret.op = "parseOTPAuthURL" /\ ret.result.ok)
  => LET written == ParamOfCall(<<"c","o","u","n","t","e","r">>)
         type == ret.result.value.type
         counter == ret.result.value.counter
     IN  /\ counter # Undefined => (type = <<"h","o","t","p">> /\ written # Null)
         /\ type = <<"t","o","t","p">> => counter = Undefined
         /\ (type = <<"h","o","t","p">> /\ written # Null /\ IsNumeral(written.s))
              => counter = Num(NumeralValue(written.s))

\* C19 witness: an hotp URL with counter=0 was parsed into a descriptor
\* with counter 0.
C19_Witness ==
  /\ ret.op = "parseOTPAuthURL"
  /\ ret.result.ok
  /\ ret.result.value.type = <<"h","o","t","p">>
  /\ ParamOfCall(<<"c","o","u","n","t","e","r">>) = Str(<<"0">>)
  /\ ret.result.value.counter = Num(0)

\* C20: generateTestSecret returns a non-empty, unpadded, upper-case Base32
\* string, the encoding of the 20 random bytes, that validateSecret accepts,
\* whatever the random bytes are.
C20_TestSecret ==
  ret.op = "generateTestSecret"
  => LET secret == ret.result.s
         BitOfByte(j) == (ret.randomBytes[(j \div 8) + 1] \div (2 ^ (7 - (j % 8)))) % 2
         BitOfChar(j) ==
           ((IndexOf(Base32Alphabet, secret[(j \div 5) + 1]) - 1) \div (2 ^ (4 - (j % 5)))) % 2
     IN  /\ ret.result.t = "string"
         /\ Len(secret) = 32
         /\ \A i \in 1..Len(secret) : secret[i] \in Base32Chars
         /\ \A j \in 0..159 : BitOfChar(j) = BitOfByte(j)
         /\ validateSecret(ret.result)

\* C20 witness: a secret was made of random bytes that are not all equal and
\* start with 255.
C20_Witness ==
  /\ ret.op = "generateTestSecret"
  /\ ret.randomBytes[1] = 255
  /\ ret.randomBytes[2] # 255
  /\ ret.result.s[1] = "7"

\* C30: generateTOTPRange leaves the global clock unchanged: when it returns
\* and when generateTOTP throws inside it (the error reaching the caller),
\* Date.now is the function it was before the call, and no other caller ever
\* reads the overridden clock.
C30_ClockRestored ==
  /\ ret.op = "generateTOTPRange"
     => /\ dateNow = ret.dateNowBefore
        /\ ret.result.ok = validateSecret(ret.secret)
        /\ ret.result.ok
           => Len(ret.result.value)
                = 2 * ((IF ret.periods = Undefined THEN 3 ELSE ret.periods.n) \div 2) + 1
  /\ ret.op = "Date.now" => ret.value = now
  /\ dateNow = NativeNow

\* C30 witness: generateTOTPRange has thrown for an invalid secret after the
\* clock had moved, and Date.now is the native clock.
C30_Witness ==
  /\ ret.op = "generateTOTPRange"
  /\ ret.secret = Str(NotBase32)
  /\ ret.periods = Undefined
  /\ ~ret.result.ok
  /\ now > RangeStart
  /\ dateNow = NativeNow

\* C25: under every interleaving of concurrent StorageService operations
\* that initialize on first use, at most one encryption key is created, and
\* once all of them have completed the key in memory is the key in the
\* keychain and the stored accounts are encrypted with it.
C25_OneEncryptionKey ==
  (\A id \in 1..MaxTasks : tasks.running[id] = Null)
  => /\ tasks.keysCreated <= 1
     /\ encryptionKey # Null => encryptionKey = keychain.internet
     /\ asyncStorage[STORAGE_KEYS.ACCOUNTS] # Null
        => asyncStorage[STORAGE_KEYS.ACCOUNTS].key = keychain.internet

\* C29: after clearAllData has completed successfully, with no other
\* operation in flight, loadAccounts returns [], loadUserPreferences null,
\* getBiometricPreference false, getLastSyncTime 0, and the key in memory
\* is null.
C29_ClearedNothingReadable ==
  (/\ ret.op = "clearAllData"
   /\ ret.result.ok
   /\ \A id \in 1..MaxTasks : tasks.running[id] = Null)
  => /\ loadAccounts(World, tasks.calls + 1, "none").task.result = Return(<<>>)
     /\ loadUserPreferences(asyncStorage) = Null
     /\ ~getBiometricPreference(asyncStorage)
     /\ getLastSyncTime(asyncStorage) = Num(0)
     /\ encryptionKey = Null


\* C22: when createAccount fails during a sync (setDoc rejects, it returns
\* success: false), every pending local account that has no cloud document
\* keeps syncStatus 'pending', is not counted as uploaded and is counted
\* under conflicts; and a sync never counts more uploads than it created
\* cloud documents.
C22_UploadedOnlyIfCreated ==
  LET localAfter == LoadedAccounts(keychain.internet, asyncStorage[STORAGE_KEYS.ACCOUNTS])
  IN  (ret.op = "syncAccounts" /\ ret.response.success)
      => /\ ret.response.data.uploaded <= Len(firestore.docs) - Len(held.cloudBefore)
         /\ ret.fault = "setDoc"
            => \A i \in DOMAIN held.localBefore :
                 (/\ held.localBefore[i].syncStatus = "pending"
                  /\ \A d \in DOMAIN held.cloudBefore :
                       held.cloudBefore[d].id # held.localBefore[i].id)
                 => /\ \E j \in DOMAIN localAfter :
                         /\ localAfter[j].id = held.localBefore[i].id
                         /\ localAfter[j].syncStatus = "pending"
                    /\ ret.response.data.uploaded = 0
                    /\ ret.response.data.conflicts >= 1

\* C21: a second syncAccounts that follows a first one with nothing edited
\* in between (both succeed, nothing rejects) uploads nothing, downloads
\* nothing, and leaves the ids of the local accounts and of the cloud
\* accounts as the first one left them.
C21_SecondSyncChangesNothing ==
  LET localAfter == LoadedAccounts(keychain.internet, asyncStorage[STORAGE_KEYS.ACCOUNTS])
      Ids(accounts) == {accounts[i].id : i \in DOMAIN accounts}
  IN  (/\ ret.op = "syncAccounts"
       /\ ret.fault = "none"
       /\ ret.response.success
       /\ held.previous # None
       /\ held.previous.fault = "none"
       /\ held.previous.response.success)
      => /\ ret.response.data.uploaded = 0
         /\ ret.response.data.downloaded = 0
         /\ Ids(localAfter) = Ids(held.localBefore)
         /\ Ids(firestore.docs) = Ids(held.cloudBefore)

\* C23: every account id stored locally before a syncAccounts call is still
\* stored locally after it, whatever the call returns and whichever call of
\* the environment rejects during it.
C23_NoLocalAccountRemoved ==
  LET localAfter == LoadedAccounts(keychain.internet, asyncStorage[STORAGE_KEYS.ACCOUNTS])
  IN  ret.op = "syncAccounts"
      => \A i \in DOMAIN held.localBefore :
           \E j \in DOMAIN localAfter : localAfter[j].id = held.localBefore[i].id

C26_ActiveSessionListens ==
  /\ session.sm.isActive => session.sm.appStateSubscription
  /\ (/\ ret.op = "appState"
      /\ ret.nextAppState = "active"
      /\ ret.wasActive
      /\ ret.expired)
     => ret.listening /\ ~session.sm.isActive

\* C27: config.onSessionExpired has been called at most once for each
\* startSession call, whatever the order of timer callbacks and button
\* presses on the two dialogs; and a press of Continue Session while the
\* session is stopped leaves both timers unset.
C27_ExpiredOncePerSession ==
  /\ session.sm.expiredCalls <= session.sm.started
  /\ (ret.op = "press" /\ ret.button = "Continue Session" /\ ~ret.wasActive)
     => session.sm.sessionTimer = Null /\ session.sm.warningTimer = Null

\* C28: whenever the session timer's callback expires an active session, at
\* least sessionTimeout has passed since the recorded lastActivity, so that
\* getTimeRemaining() returns 0 as the callback starts.
C28_ExpiresAfterTimeout ==
  (ret.op = "sessionTimer" /\ ret.wasActive)
  => /\ ret.elapsed >= createDefault.sessionTimeout
     /\ ret.remaining = 0
====
